---- MODULE Spec2Model ----
(***************************************************************************)
(* Setup Manager HUD: the webhook worker (handleWebhook, handleEvents),    *)
(* the DashboardRoom durable object (broadcast, upgrade, client messages,  *)
(* history replay) and the KV namespace they share.                        *)
(*                                                                         *)
(* Handlers are JavaScript async functions on a single-threaded event      *)
(* loop: the code between two awaits runs atomically, so every action      *)
(* below is one such stretch of a handler.                                 *)
(***************************************************************************)
EXTENDS Integers, Sequences, FiniteSets, TLC

\* ------------------------------------------------------------------ bounds
MaxReqs == 2          \* webhook submissions
MaxSessions == 2      \* WebSocket sessions ever accepted
MaxTime == 2          \* distinct values of Date.now()
MaxTasks == 2         \* history reads ever started (sendHistory / handleEvents)
MaxClientMsgs == 2    \* client messages ever delivered to webSocketMessage
MaxFaults == 1        \* entries that expire or are overwritten from outside
MaxParamLen == 4      \* characters of the limit query parameter
MaxTransports == 12   \* WebSocket objects one viewer ever creates

Reqs == 1..MaxReqs
Sessions == 1..MaxSessions
Tasks == 1..MaxTasks

\* ------------------------------------------------------- program constants
MAX_HISTORY == 200
\* (variant) a doubled cap
MAX_WS_MESSAGE_SIZE_Doubled == 2 * 4096

MAX_WS_MESSAGE_SIZE == 4096
DEFAULT_EVENTS_LIMIT == 100
MAX_EVENTS_LIMIT == 1000

\* JavaScript null / undefined (one value is enough here)
Null == [null |-> TRUE]

VALID_EVENTS == {"com.jamf.setupmanager.started", "com.jamf.setupmanager.finished"}
Serials == {"S1"}

\* ------------------------------------------------------------- JS helpers
MathMin(a, b) == IF a < b THEN a ELSE b
MathMax(a, b) == IF a > b THEN a ELSE b

Range(f) == {f[i] : i \in DOMAIN f}

\* ---------------------------------------------------------------- parseInt
\* a string is a sequence of one-character strings
Digits == {"0", "1", "2", "3", "4", "5", "6", "7", "8", "9"}

DigitVal(c) ==
    CASE c = "0" -> 0 [] c = "1" -> 1 [] c = "2" -> 2 [] c = "3" -> 3
      [] c = "4" -> 4 [] c = "5" -> 5 [] c = "6" -> 6 [] c = "7" -> 7
      [] c = "8" -> 8 [] c = "9" -> 9

RECURSIVE TrimStart(_)
TrimStart(str) ==
    IF str # <<>> /\ Head(str) = " " THEN TrimStart(Tail(str)) ELSE str

RECURSIVE DigitPrefix(_)
DigitPrefix(str) ==
    IF str # <<>> /\ Head(str) \in Digits
    THEN <<Head(str)>> \o DigitPrefix(Tail(str))
    ELSE <<>>

RECURSIVE DecimalValue(_)
DecimalValue(ds) ==
    IF ds = <<>> THEN 0
    ELSE 10 * DecimalValue(SubSeq(ds, 1, Len(ds) - 1)) + DigitVal(ds[Len(ds)])

NaN == [nan |-> TRUE, v |-> 0]
Num(n) == [nan |-> FALSE, v |-> n]

\* parseInt(str, 10): leading white space, an optional sign, then the longest
\* run of digits; NaN when there is no digit
ParseInt(str) ==
    LET t == TrimStart(str)
        signed == t # <<>> /\ Head(t) \in {"-", "+"}
        body == IF signed THEN Tail(t) ELSE t
        ds == DigitPrefix(body)
    IN  IF ds = <<>> THEN NaN
        ELSE IF signed /\ Head(t) = "-" THEN Num(0 - DecimalValue(ds))
        ELSE Num(DecimalValue(ds))

\* JavaScript truthiness of a number: NaN and 0 are falsy
Truthy(n) == ~n.nan /\ n.v # 0

\* ------------------------------------------------------------ StoredEvent
\* eventId = `${event}:${serialNumber}:${timestamp}`
\* (variant) an identifier without the serial number
EventIdNoSerial(event, serial, timestamp) == event \o ":" \o ToString(timestamp)

EventId(event, serial, timestamp) ==
    event \o ":" \o serial \o ":" \o ToString(timestamp)

StoredEvent(event, serial, timestamp) ==
    [payload |-> [event |-> event, serialNumber |-> serial],
     timestamp |-> timestamp,
     eventId |-> EventId(event, serial, timestamp)]

\* JSON.stringify of a StoredEvent, and a stored string that is not JSON
JSONstringify(obj) == [text |-> "json", obj |-> obj]
Garbage == [text |-> "garbage"]

JSONparseThrows(data) == data.text # "json"
JSONparse(data) == data.obj

\* --------------------------------------------------------- KV namespace
\* KV lists keys in lexicographic order of the key string.  All keys of the
\* model are event:serial:timestamp with serials of one length and
\* timestamps of one width, so the order is that of the three parts.
KeyParts(k) ==
    CHOOSE p \in VALID_EVENTS \X Serials \X (0..(MaxTime + 1)) :
        EventId(p[1], p[2], p[3]) = k

StrRank(s) ==
    CASE s = "com.jamf.setupmanager.finished" -> 1
      [] s = "com.jamf.setupmanager.started" -> 2
      [] OTHER -> 0

KeyLess(a, b) ==
    LET pa == KeyParts(a)
        pb == KeyParts(b)
    IN  \/ StrRank(pa[1]) < StrRank(pb[1])
        \/ /\ pa[1] = pb[1]
           /\ \/ StrRank(pa[2]) < StrRank(pb[2])
              \/ pa[2] = pb[2] /\ pa[3] < pb[3]

RECURSIVE SortedKeys(_)
SortedKeys(S) ==
    IF S = {} THEN <<>>
    ELSE LET m == CHOOSE k \in S : \A o \in S \ {k} : KeyLess(k, o)
         IN  <<m>> \o SortedKeys(S \ {m})

\* WEBHOOKS.list({ limit }).keys
KVList(kv, limit) ==
    LET all == SortedKeys(DOMAIN kv)
    IN  SubSeq(all, 1, MathMin(limit, Len(all)))

EmptyKV == [k \in {} |-> Null]

\* WEBHOOKS.get(name)
KVGet(kv, name) == IF name \in DOMAIN kv THEN kv[name] ELSE Null

\* WEBHOOKS.put(key, value)
KVPut(kv, key, value) ==
    [k \in DOMAIN kv \cup {key} |-> IF k = key THEN value ELSE kv[k]]

\* ----------------------------------------------------- history pipeline
\* one element of the Promise.all map: null for a missing or unparsable entry
ReadEntry(data) ==
    IF data = Null THEN Null
    ELSE IF JSONparseThrows(data) THEN Null
    ELSE JSONparse(data)

FilterNonNull(seq) == SelectSeq(seq, LAMBDA e : e # Null)

\* (variant) the comparator the other way round: a.timestamp - b.timestamp
RECURSIVE InsertAsc(_, _)
InsertAsc(e, sorted) ==
    IF sorted = <<>> THEN <<e>>
    ELSE IF e.timestamp - Head(sorted).timestamp < 0
         THEN <<e>> \o sorted
         ELSE <<Head(sorted)>> \o InsertAsc(e, Tail(sorted))

\* Array.prototype.sort((a, b) => b.timestamp - a.timestamp), stable
RECURSIVE InsertDesc(_, _)
InsertDesc(e, sorted) ==
    IF sorted = <<>> THEN <<e>>
    ELSE IF Head(sorted).timestamp - e.timestamp < 0
         THEN <<e>> \o sorted
         ELSE <<Head(sorted)>> \o InsertDesc(e, Tail(sorted))

RECURSIVE SortDesc(_)
SortDesc(seq) ==
    IF seq = <<>> THEN <<>>
    ELSE InsertDesc(seq[Len(seq)], SortDesc(SubSeq(seq, 1, Len(seq) - 1)))

ValidEvents(got) == SortDesc(FilterNonNull([i \in DOMAIN got |-> ReadEntry(got[i])]))

\* ------------------------------------------------------------------ state
VARIABLES
    now,         \* Date.now(), as the index of the current millisecond
    store,       \* env.WEBHOOKS: key string -> stored string
    req,         \* one record per webhook submission (handleWebhook's frame)
    loop,        \* the latest broadcast loop: its submission, the sessions it
                 \* visited, those of them registered since its handler was
                 \* entered, and the summary it answered
    webSockets,  \* state.getWebSockets(): the accepted, not yet removed sessions
    broken,      \* registered sessions whose transport is gone: send() throws
    closed,      \* sessions removed after their close/error event
    sent,        \* per session, the messages send() delivered, in order
    task,        \* one record per read-side handler run (sendHistory,
                 \* handleEvents, handleStats, handleHealth)
    received,    \* number of client messages handled so far
    handled,     \* the client messages handled so far with their sessions, in order
    upgraded,    \* sessions whose 101 upgrade response has been returned
    faults,      \* number of entries expired or overwritten from outside so far
    viewer       \* one dashboard viewer (useWebSocket): its local event list,
                 \* its stats, how many messages of its socket it has read,
                 \* its transports and its reconnect timers

vars == <<now, store, req, loop, webSockets, broken, closed, sent, task,
          received, handled, upgraded, faults, viewer>>

IdleReq == [pc |-> "idle", rq |-> Null, ev |-> Null, stored |-> FALSE,
            began |-> {}, status |-> 0, reply |-> Null,
            logged |-> Null]

NoLoop == [r |-> 0, stayed |-> {}, targets |-> <<>>, summary |-> Null]

FreeTask == [pc |-> "free", kind |-> "none", sess |-> 0, asked |-> Null,
             limit |-> 0, keys |-> <<>>, got |-> <<>>, out |-> <<>>,
             env |-> Null, reply |-> Null,
             request |-> Null]   \* the request the router passed on

\* useState's initial value, before any message is read
NewViewer ==
    [events |-> <<>>,
     stats |-> [total |-> 0, started |-> 0, finished |-> 0, avgDuration |-> 0,
                successRate |-> 100, failedActions |-> 0],
     read |-> 0,
     connected |-> FALSE,
     mounted |-> "no",          \* "no", "yes", or "torn down"
     wsRef |-> 0,               \* wsRef.current: a transport, or 0 for null
     reconnectAttempts |-> 0,
     transports |-> <<>>,       \* readyState of every WebSocket created
     opened |-> {},             \* the transports whose onopen has run
     timers |-> <<>>,           \* delays (ms) of the pending setTimeout(connect)
     pingInterval |-> FALSE]

Init ==
    /\ now = 1
    /\ store = EmptyKV
    /\ req = [r \in Reqs |-> IdleReq]
    /\ loop = NoLoop
    /\ webSockets = {}
    /\ broken = {}
    /\ closed = {}
    /\ sent = [s \in Sessions |-> <<>>]
    /\ task = [t \in Tasks |-> FreeTask]
    /\ received = 0
    /\ handled = <<>>
    /\ upgraded = {}
    /\ faults = 0
    /\ viewer = NewViewer

\* ws.send(message): throws unless the session is registered and its
\* transport is alive
SendOk(s) == s \in webSockets /\ s \notin broken

\* ------------------------------------------------------------ environment
\* time passes
Tick ==
    /\ now < MaxTime
    /\ now' = now + 1
    /\ UNCHANGED <<store, req, loop, webSockets, broken, closed, sent, task, received, handled, upgraded, faults, viewer>>

\* an entry reaches its expirationTtl and disappears from the namespace
Expire(k) ==
    /\ k \in DOMAIN store
    /\ faults < MaxFaults
    /\ faults' = faults + 1
    /\ store' = [j \in DOMAIN store \ {k} |-> store[j]]
    /\ UNCHANGED <<now, req, loop, webSockets, broken, closed, sent, task, received, handled, upgraded, viewer>>

\* the namespace holds a value that is not a serialized StoredEvent
\* (written to the namespace from outside the worker)
ExternalWrite(k) ==
    /\ k \in DOMAIN store
    /\ store[k] # Garbage
    /\ faults < MaxFaults
    /\ faults' = faults + 1
    /\ store' = [store EXCEPT ![k] = Garbage]
    /\ UNCHANGED <<now, req, loop, webSockets, broken, closed, sent, task, received, handled, upgraded, viewer>>

\* the peer of a session goes away; its close/error event is still to come
Break(s) ==
    /\ s \in webSockets \ broken
    /\ broken' = broken \cup {s}
    /\ UNCHANGED <<now, store, req, loop, webSockets, closed, sent, task, received, handled, upgraded, faults, viewer>>

\* ------------------------------------------- validateWebhookPayload
\* a string of characters as one string value
RECURSIVE Concat(_)
Concat(chars) == IF chars = <<>> THEN "" ELSE Head(chars) \o Concat(Tail(chars))

\* a string known by its text as a whole
Text(str) == [t |-> "string", text |-> str]

\* a JSON value, tagged with what typeof and Array.isArray tell of it: a
\* string is the sequence of its parts, an object the function from its own
\* keys to their values, an array the sequence of its elements
Undefined == [t |-> "undefined"]
JsonNull == [t |-> "null"]
Number(n) == [t |-> "number", v |-> n]
NotFinite(which) == [t |-> "number", v |-> 0, special |-> which]
String(str) == [t |-> "string", str |-> str]
Obj(props) == [t |-> "object", props |-> props]
Array(items) == [t |-> "array", items |-> items]

\* typeof value === 'object' && value !== null
TypeofObject(value) == value.t \in {"object", "array"}

\* Object.keys(obj)
ObjectKeys(obj) ==
    IF obj.t = "object" THEN DOMAIN obj.props
    ELSE {ToString(i - 1) : i \in DOMAIN obj.items}

\* obj[field]
Get(obj, field) ==
    IF obj.t = "object" /\ field \in DOMAIN obj.props
    THEN obj.props[field]
    ELSE Undefined

\* value === text
StrEq(value, text) == value.t = "string" /\ Concat(value.str) = text

\* (variant) the last base field forgotten
REQUIRED_BASE_FIELDS_Short ==
    <<"name", "event", "timestamp", "started", "modelName", "modelIdentifier",
      "macOSBuild", "macOSVersion", "serialNumber">>

REQUIRED_BASE_FIELDS ==
    <<"name", "event", "timestamp", "started", "modelName", "modelIdentifier",
      "macOSBuild", "macOSVersion", "serialNumber", "setupManagerVersion">>

DANGEROUS_KEYS == {"__proto__", "constructor", "prototype"}

\* typeof value === 'string' && value.trim().length > 0
IsNonEmptyString(value) == value.t = "string" /\ TrimStart(value.str) # <<>>

\* the date strings new Date(value) parses
ParsableDates == {"2024-05-01T10:00:00Z", "2024-05-01T10:05:00Z"}

\* isNonEmptyString(value) && !isNaN(new Date(value).getTime())
IsValidTimestamp(value) ==
    IsNonEmptyString(value) /\ Concat(value.str) \in ParsableDates

\* (variant) zero is not taken as a duration
IsPositiveNumber(value) ==
    /\ value.t = "number"
    /\ "special" \notin DOMAIN value
    /\ value.v > 0

\* typeof value === 'number' && value >= 0 && isFinite(value)
IsNonNegativeNumber(value) ==
    /\ value.t = "number"
    /\ IF "special" \in DOMAIN value THEN value.special = "Infinity" ELSE value.v >= 0
    /\ "special" \notin DOMAIN value

\* Object.keys(obj).some((key) => DANGEROUS_KEYS.includes(key))
HasDangerousKeys(obj) == ObjectKeys(obj) \cap DANGEROUS_KEYS # {}

IsValidEnrollmentAction(action) ==
    /\ TypeofObject(action)
    /\ ~HasDangerousKeys(action)
    /\ IsNonEmptyString(Get(action, "label"))
    /\ \/ StrEq(Get(action, "status"), "finished")
       \/ StrEq(Get(action, "status"), "failed")

OptionalStringOk(obj, field) == Get(obj, field).t \in {"undefined", "string"}

IsValidUserEntry(entry) ==
    /\ TypeofObject(entry)
    /\ ~HasDangerousKeys(entry)
    /\ \A field \in {"department", "computerName", "userID", "assetTag"} :
           OptionalStringOk(entry, field)

Invalid(error) == [valid |-> FALSE, error |-> error]
Valid == [valid |-> TRUE, error |-> ""]

\* the first index of fields whose value is not a non-empty string, or 0
FirstMissing(obj, fields) ==
    LET bad == {i \in DOMAIN fields : ~IsNonEmptyString(Get(obj, fields[i]))}
    IN  IF bad = {} THEN 0 ELSE CHOOSE i \in bad : \A j \in bad : i <= j

\* the additional validation for finished events
ValidateFinished(obj) ==
    LET actions == Get(obj, "enrollmentActions")
        badActions == IF actions.t = "array"
                      THEN {i \in DOMAIN actions.items :
                               ~IsValidEnrollmentAction(actions.items[i])}
                      ELSE {}
    IN  IF ~IsNonNegativeNumber(Get(obj, "duration"))
        THEN Invalid("duration must be a non-negative number")
        ELSE IF ~IsNonEmptyString(Get(obj, "finished"))
        THEN Invalid("Missing or invalid required field: finished")
        ELSE IF ~IsValidTimestamp(Get(obj, "finished"))
        THEN Invalid("Invalid finished timestamp format")
        ELSE IF actions.t \notin {"undefined", "array"}
        THEN Invalid("enrollmentActions must be an array")
        ELSE IF badActions # {}
        THEN Invalid("Invalid enrollment action at index "
                     \o ToString((CHOOSE i \in badActions :
                                     \A j \in badActions : i <= j) - 1))
        ELSE IF Get(obj, "userEntry").t # "undefined"
                /\ ~IsValidUserEntry(Get(obj, "userEntry"))
        THEN Invalid("Invalid userEntry object")
        ELSE IF Get(obj, "uploadThroughput").t # "undefined"
                /\ ~IsNonNegativeNumber(Get(obj, "uploadThroughput"))
        THEN Invalid("uploadThroughput must be a non-negative number")
        ELSE IF Get(obj, "downloadThroughput").t # "undefined"
                /\ ~IsNonNegativeNumber(Get(obj, "downloadThroughput"))
        THEN Invalid("downloadThroughput must be a non-negative number")
        ELSE Valid

\* the optional string fields, in the order of the loop
ValidateOptionalStrings(obj) ==
    IF ~OptionalStringOk(obj, "jamfProVersion")
    THEN Invalid("jamfProVersion must be a string if provided")
    ELSE IF ~OptionalStringOk(obj, "jssID")
    THEN Invalid("jssID must be a string if provided")
    ELSE IF ~OptionalStringOk(obj, "computerName")
    THEN Invalid("computerName must be a string if provided")
    ELSE Valid

validateWebhookPayload(payload) ==
    IF ~TypeofObject(payload)
    THEN Invalid("Payload must be a non-null object")
    ELSE IF HasDangerousKeys(payload)
    THEN Invalid("Payload contains forbidden property names")
    ELSE IF ~\E e \in VALID_EVENTS : StrEq(Get(payload, "event"), e)
    THEN Invalid("Invalid event type")
    ELSE IF FirstMissing(payload, REQUIRED_BASE_FIELDS) # 0
    THEN Invalid("Missing or invalid required field: "
                 \o REQUIRED_BASE_FIELDS[FirstMissing(payload, REQUIRED_BASE_FIELDS)])
    ELSE IF ~IsValidTimestamp(Get(payload, "timestamp"))
    THEN Invalid("Invalid timestamp format")
    ELSE IF ~IsValidTimestamp(Get(payload, "started"))
    THEN Invalid("Invalid started timestamp format")
    ELSE IF StrEq(Get(payload, "event"), "com.jamf.setupmanager.started")
            /\ ~StrEq(Get(payload, "name"), "Started")
    THEN Invalid("name must be \"Started\" for started events")
    ELSE IF StrEq(Get(payload, "event"), "com.jamf.setupmanager.finished")
            /\ ~StrEq(Get(payload, "name"), "Finished")
    THEN Invalid("name must be \"Finished\" for finished events")
    ELSE IF StrEq(Get(payload, "event"), "com.jamf.setupmanager.finished")
            /\ ~ValidateFinished(payload).valid
    THEN ValidateFinished(payload)
    ELSE ValidateOptionalStrings(payload)

\* ---------------------------------------------------- POST /webhook
MAX_WEBHOOK_PAYLOAD_SIZE == 8192

\* request.json(): a body that is not JSON makes it throw
BadJson == [json |-> FALSE, payload |-> Null]
JsonBody(payload) == [json |-> TRUE, payload |-> payload]

\* a POST /webhook: its Content-Length, Content-Type and Authorization
\* headers (a header value is the sequence of its parts), the number of
\* bytes its body really has, the body, and env.WEBHOOK_SECRET ("" when the
\* secret is not configured)
Request(contentLength, bodySize, contentType, authorization, secret, body) ==
    [contentLength |-> contentLength, bodySize |-> bodySize,
     contentType |-> contentType, authorization |-> authorization,
     secret |-> secret, body |-> body]

\* parseInt(request.headers.get("Content-Length") || "0", 10)
DeclaredLength(rq) ==
    ParseInt(IF rq.contentLength.present /\ rq.contentLength.chars # <<>>
             THEN rq.contentLength.chars
             ELSE <<"0">>)

\* contentType.includes("application/json")
IncludesJson(parts) == \E i \in DOMAIN parts : parts[i] = "application/json"

\* authHeader?.startsWith("Bearer ") ? authHeader.slice(7) : null
BearerToken(header) ==
    IF header.present /\ header.chars # <<>> /\ Head(header.chars) = "Bearer "
    THEN Text(Concat(Tail(header.chars)))
    ELSE [t |-> "null"]

\* the digests of the two strings are equal exactly when the strings are
timingSafeEqual(a, b) == a = b

Rejected(status, error, logged) ==
    [status |-> status, reply |-> [error |-> error], logged |-> logged]

\* contentLength > MAX_WEBHOOK_PAYLOAD_SIZE
TooLarge(rq) ==
    ~DeclaredLength(rq).nan /\ DeclaredLength(rq).v > MAX_WEBHOOK_PAYLOAD_SIZE

\* !contentType || !contentType.includes("application/json")
NotJsonType(rq) ==
    \/ ~rq.contentType.present
    \/ rq.contentType.chars = <<>>
    \/ ~IncludesJson(rq.contentType.chars)

\* (variant) the credential is compared only when one was sent
UnauthorizedUnlessAbsent(rq) ==
    /\ rq.secret # ""
    /\ BearerToken(rq.authorization).t = "string"
    /\ ~timingSafeEqual(BearerToken(rq.authorization).text, rq.secret)

\* webhookSecret && (!token || !(await timingSafeEqual(token, webhookSecret)))
Unauthorized(rq) ==
    /\ rq.secret # ""
    /\ \/ BearerToken(rq.authorization).t = "null"
       \/ BearerToken(rq.authorization).text = ""
       \/ ~timingSafeEqual(BearerToken(rq.authorization).text, rq.secret)

\* (variant) the failed rule is returned to the submitter
ValidationFailureDetailed(error) == Rejected(400, error, [message |-> error])

\* console.error(`Webhook validation failed: ...`) and the generic response
ValidationFailure(error) ==
    Rejected(400, "Invalid webhook payload", [message |-> error])

\* the checks of handleWebhook in their order: the response of the first
\* that fails and what it logs, or status 0 when the request passes them all
WebhookVerdict(rq) ==
    IF TooLarge(rq)
    THEN Rejected(413, "Payload too large", Null)
    ELSE IF NotJsonType(rq)
    THEN Rejected(415, "Content-Type must be application/json", Null)
    ELSE IF Unauthorized(rq)
    THEN Rejected(401, "Unauthorized", Null)
    ELSE IF ~rq.body.json
    THEN Rejected(400, "Invalid JSON payload", Null)
    ELSE IF ~validateWebhookPayload(rq.body.payload).valid
    THEN ValidationFailure(validateWebhookPayload(rq.body.payload).error)
    ELSE Rejected(0, "", Null)

\* (variant) the body is written to the namespace before the checks
WebhookRejectAfterWrite(r, rq) ==
    /\ req[r].pc = "idle"
    /\ \A q \in Reqs : q < r => req[q].pc # "idle"
    /\ WebhookVerdict(rq).status # 0
    /\ req' = [req EXCEPT ![r].pc = "rejected",
                          ![r].rq = rq,
                          ![r].status = WebhookVerdict(rq).status,
                          ![r].reply = WebhookVerdict(rq).reply,
                          ![r].logged = WebhookVerdict(rq).logged]
    /\ store' = KVPut(store, "rejected", Garbage)
    /\ UNCHANGED <<now, loop, webSockets, broken, closed, sent, task, received, handled, upgraded, faults, viewer>>

\* handleWebhook for a request that fails a check: the failure response
WebhookReject(r, rq) ==
    /\ req[r].pc = "idle"
    /\ \A q \in Reqs : q < r => req[q].pc # "idle"
    /\ WebhookVerdict(rq).status # 0
    /\ req' = [req EXCEPT ![r].pc = "rejected",
                          ![r].rq = rq,
                          ![r].status = WebhookVerdict(rq).status,
                          ![r].reply = WebhookVerdict(rq).reply,
                          ![r].logged = WebhookVerdict(rq).logged]
    /\ UNCHANGED <<now, store, loop, webSockets, broken, closed, sent, task, received, handled, upgraded, faults, viewer>>

\* handleWebhook up to the await of WEBHOOKS.put, for a request that passed
\* the checks: the StoredEvent is built and the put is issued
WebhookAccept(r, rq) ==
    /\ req[r].pc = "idle"
    /\ \A q \in Reqs : q < r => req[q].pc # "idle"
    /\ WebhookVerdict(rq).status = 0
    /\ req' = [req EXCEPT ![r].pc = "put",
                          ![r].rq = rq,
                          ![r].ev = StoredEvent(
                              Concat(Get(rq.body.payload, "event").str),
                              Concat(Get(rq.body.payload, "serialNumber").str),
                              now)]
    /\ UNCHANGED <<now, store, loop, webSockets, broken, closed, sent, task, received, handled, upgraded, faults, viewer>>

\* the put resolves; the handler goes on to room.fetch("/broadcast")
WebhookPutOk(r) ==
    /\ req[r].pc = "put"
    /\ store' = KVPut(store, req[r].ev.eventId, JSONstringify(req[r].ev))
    /\ req' = [req EXCEPT ![r].pc = "fanout", ![r].stored = TRUE]
    /\ UNCHANGED <<now, loop, webSockets, broken, closed, sent, task, received, handled, upgraded, faults, viewer>>

\* (variant) the rejected put is swallowed and the handler goes on to fan out
WebhookPutFailIgnored(r) ==
    /\ req[r].pc = "put"
    /\ req' = [req EXCEPT ![r].pc = "fanout"]
    /\ UNCHANGED <<now, store, loop, webSockets, broken, closed, sent, task, received, handled, upgraded, faults, viewer>>

\* (variant) the rejected put is caught and the handler answers 200
WebhookPutFailAnswers200(r) ==
    /\ req[r].pc = "put"
    /\ req' = [req EXCEPT ![r].pc = "threw", ![r].status = 200,
                          ![r].reply = [success |-> TRUE, eventId |-> req[r].ev.eventId]]
    /\ UNCHANGED <<now, store, loop, webSockets, broken, closed, sent, task, received, handled, upgraded, faults, viewer>>

\* the put rejects; nothing catches it, the handler ends with the exception
\* and the runtime answers the request with its 500 error response
WebhookPutFail(r) ==
    /\ req[r].pc = "put"
    /\ req' = [req EXCEPT ![r].pc = "threw", ![r].status = 500]
    /\ UNCHANGED <<now, store, loop, webSockets, broken, closed, sent, task, received, handled, upgraded, faults, viewer>>

\* ------------------------------------------- DashboardRoom.fetch /broadcast
\* the room's fetch is entered and awaits request.text()
BroadcastRecv(r) ==
    /\ req[r].pc = "fanout"
    /\ req' = [req EXCEPT ![r].pc = "text", ![r].began = webSockets]
    /\ UNCHANGED <<now, store, loop, webSockets, broken, closed, sent, task, received, handled, upgraded, faults, viewer>>

\* the order in which `for (const ws of webSockets)` visits the sessions
RECURSIVE SeqOfSet(_)
SeqOfSet(S) ==
    IF S = {} THEN <<>>
    ELSE LET m == CHOOSE x \in S : \A y \in S : x <= y
         IN  <<m>> \o SeqOfSet(S \ {m})

\* (variant) sessions whose transport is gone are skipped
BroadcastTargetsAlive(ws) == SeqOfSet(ws \ broken)

BroadcastTargets(ws) == SeqOfSet(ws)

BroadcastMessage(r) == [type |-> "setup-manager-event", data |-> req[r].ev]

\* (variant) the loop without the try/catch: the first throwing send ends it
RECURSIVE SendLoopAbort(_, _, _)
SendLoopAbort(targets, message, acc) ==
    IF targets = <<>> THEN acc
    ELSE LET ws == Head(targets)
         IN  IF SendOk(ws)
             THEN SendLoopAbort(Tail(targets), message,
                                [acc EXCEPT !.sent[ws] = Append(@, message),
                                            !.successCount = @ + 1])
             ELSE [acc EXCEPT !.errorCount = @ + 1]

\* for (const ws of webSockets) { try { ws.send(message); successCount++ }
\*                                catch { errorCount++ } }
RECURSIVE SendLoop(_, _, _)
SendLoop(targets, message, acc) ==
    IF targets = <<>> THEN acc
    ELSE LET ws == Head(targets)
         IN  IF SendOk(ws)
             THEN SendLoop(Tail(targets), message,
                           [acc EXCEPT !.sent[ws] = Append(@, message),
                                       !.successCount = @ + 1])
             ELSE SendLoop(Tail(targets), message,
                           [acc EXCEPT !.errorCount = @ + 1])

\* (variant) the loop also unregisters the sessions whose send threw
BroadcastRunEvict(r) ==
    /\ req[r].pc = "text"
    /\ LET targets == BroadcastTargets(webSockets)
           res == SendLoop(targets, BroadcastMessage(r),
                           [sent |-> sent, successCount |-> 0, errorCount |-> 0])
       IN  /\ sent' = res.sent
           /\ req' = [req EXCEPT ![r].pc = "done",
                                 ![r].began = {},
                                 ![r].status = 200,
                                 ![r].reply = [success |-> TRUE,
                                               eventId |-> req[r].ev.eventId]]
           /\ loop' = [r |-> r,
                        stayed |-> req[r].began \cap webSockets,
                        targets |-> targets,
                        summary |-> [broadcasted |-> TRUE,
                                     clients |-> Cardinality(webSockets),
                                     success |-> res.successCount,
                                     errors |-> res.errorCount]]
    /\ webSockets' = webSockets \ broken
    /\ broken' = {}
    /\ UNCHANGED <<now, store, closed, task, received, handled, upgraded, faults, viewer>>

\* the send loop over getWebSockets() and the summary response, after which
\* handleWebhook returns 200 with the eventId; the handler's frame is gone
BroadcastRun(r) ==
    /\ req[r].pc = "text"
    /\ LET targets == BroadcastTargets(webSockets)
           res == SendLoop(targets, BroadcastMessage(r),
                           [sent |-> sent, successCount |-> 0, errorCount |-> 0])
       IN  /\ sent' = res.sent
           /\ req' = [req EXCEPT ![r].pc = "done",
                                 ![r].began = {},
                                 ![r].status = 200,
                                 ![r].reply = [success |-> TRUE,
                                               eventId |-> req[r].ev.eventId]]
           /\ loop' = [r |-> r,
                        stayed |-> req[r].began \cap webSockets,
                        targets |-> targets,
                        summary |-> [broadcasted |-> TRUE,
                                     clients |-> Cardinality(webSockets),
                                     success |-> res.successCount,
                                     errors |-> res.errorCount]]
    /\ UNCHANGED <<now, store, webSockets, broken, closed, task, received, handled, upgraded, faults, viewer>>

\* --------------------------------------------------------- history reads
NextFree(t) == task[t].pc = "free" /\ \A u \in Tasks : u < t => task[u].pc # "free"

\* sendHistory / handleEvents up to the await of WEBHOOKS.list({ limit })
StartRead(t, kind, s, asked, limit) ==
    [task EXCEPT ![t] = [FreeTask EXCEPT !.pc = "list", !.kind = kind, !.sess = s,
                                         !.asked = asked, !.limit = limit]]

\* the list resolves; one get per listed key is issued
HistList(t) ==
    /\ task[t].pc = "list"
    /\ task' = [task EXCEPT ![t].pc = "get",
                            ![t].keys = KVList(store, task[t].limit)]
    /\ UNCHANGED <<now, store, req, loop, webSockets, broken, closed, sent, received, handled, upgraded, faults, viewer>>

\* the WEBHOOKS.get(key.name) of the listed keys resolve
HistGet(t) ==
    /\ task[t].pc = "get"
    /\ Len(task[t].got) < Len(task[t].keys)
    /\ task' = [task EXCEPT ![t].got =
                    [i \in DOMAIN task[t].keys |-> KVGet(store, task[t].keys[i])]]
    /\ UNCHANGED <<now, store, req, loop, webSockets, broken, closed, sent, received, handled, upgraded, faults, viewer>>

HistoryMessage(validEvents) == [type |-> "history", data |-> validEvents]

\* a finished read: the handler's locals are gone, what it read and what it
\* replied are kept for inspection
Finished(t, pc, validEvents) ==
    [task EXCEPT ![t] = [FreeTask EXCEPT !.pc = pc, !.kind = task[t].kind,
                                         !.sess = task[t].sess,
                                         !.got = task[t].got,
                                         !.out = validEvents]]

\* Promise.all resolves: filter, sort, and ws.send (sendHistory) or the JSON
\* response (handleEvents).  A send that throws is caught by the caller.
HistSend(t) ==
    /\ task[t].pc = "get"
    /\ task[t].kind # "stats"
    /\ Len(task[t].got) = Len(task[t].keys)
    /\ LET validEvents == ValidEvents(task[t].got)
           s == task[t].sess
       IN  IF task[t].kind = "http"
           THEN /\ task' = Finished(t, "done", validEvents)
                /\ sent' = sent
           ELSE IF SendOk(s)
           THEN /\ task' = Finished(t, "done", validEvents)
                /\ sent' = [sent EXCEPT ![s] = Append(@, HistoryMessage(validEvents))]
           ELSE /\ task' = Finished(t, "failed", validEvents)
                /\ sent' = sent
    /\ UNCHANGED <<now, store, req, loop, webSockets, broken, closed, received, handled,
                   upgraded, faults, viewer>>

\* (variant) the catch of a rejected sendHistory also closes the session
HistFailCloses(t) ==
    /\ task[t].pc \in {"list", "get"}
    /\ task[t].kind \in {"join", "ws"}
    /\ faults < MaxFaults
    /\ faults' = faults + 1
    /\ task' = Finished(t, "failed", <<>>)
    /\ webSockets' = webSockets \ {task[t].sess}
    /\ closed' = closed \cup {task[t].sess}
    /\ UNCHANGED <<now, store, req, loop, broken, sent, received, handled,
                   upgraded, viewer>>

\* WEBHOOKS.list or a WEBHOOKS.get rejects, or ws.send throws although the
\* transport is alive: sendHistory rejects, and the .catch of the upgrade
\* or the catch of webSocketMessage logs the error
HistFail(t) ==
    /\ task[t].pc \in {"list", "get"}
    /\ task[t].kind \in {"join", "ws"}
    /\ faults < MaxFaults
    /\ faults' = faults + 1
    /\ task' = Finished(t, "failed", <<>>)
    /\ UNCHANGED <<now, store, req, loop, webSockets, broken, closed, sent,
                   received, handled, upgraded, viewer>>

\* ------------------------------------------- DashboardRoom.fetch (upgrade)
ConnectedMessage == [type |-> "connected", timestamp |-> now]

\* (variant) the upgrade awaits sendHistory before it returns the response
JoinAwaitsHistory(s, t) ==
    /\ s \notin webSockets \cup closed
    /\ \A q \in Sessions : q < s => q \in webSockets \cup closed
    /\ NextFree(t)
    /\ webSockets' = webSockets \cup {s}
    /\ sent' = [sent EXCEPT ![s] = Append(@, ConnectedMessage)]
    /\ task' = StartRead(t, "join", s, Null, MAX_HISTORY)
    /\ UNCHANGED <<now, store, req, loop, broken, closed, received, handled, upgraded, faults, viewer>>

\* acceptWebSocket, the connected acknowledgment, sendHistory started but
\* not awaited, and the 101 response
Join(s, t) ==
    /\ s \notin webSockets \cup closed
    /\ \A q \in Sessions : q < s => q \in webSockets \cup closed
    /\ NextFree(t)
    /\ webSockets' = webSockets \cup {s}
    /\ sent' = [sent EXCEPT ![s] = Append(@, ConnectedMessage)]
    /\ task' = StartRead(t, "join", s, Null, MAX_HISTORY)
    /\ upgraded' = upgraded \cup {s}
    /\ UNCHANGED <<now, store, req, loop, broken, closed, received, handled, faults, viewer>>

\* webSocketClose: ws.close(code, ...); the closed socket leaves getWebSockets()
WebSocketClose(s) ==
    /\ s \in webSockets
    /\ webSockets' = webSockets \ {s}
    /\ broken' = broken \ {s}
    /\ closed' = closed \cup {s}
    /\ UNCHANGED <<now, store, req, loop, sent, task, received, handled, upgraded, faults, viewer>>

\* GET /connections: { connections: getWebSockets().length }
ConnectionCount == Cardinality(webSockets)

\* (variant) the failed socket is marked closed but stays in getWebSockets()
WebSocketErrorKeepsSocket(s) ==
    /\ s \in broken
    /\ closed' = closed \cup {s}
    /\ UNCHANGED <<now, store, req, loop, webSockets, broken, sent, task, received, handled, upgraded, faults, viewer>>

\* webSocketError: the handler only logs; the runtime drops the failed socket
WebSocketError(s) ==
    /\ s \in broken
    /\ webSockets' = webSockets \ {s}
    /\ broken' = broken \ {s}
    /\ closed' = closed \cup {s}
    /\ UNCHANGED <<now, store, req, loop, sent, task, received, handled, upgraded, faults, viewer>>

\* ---------------------------------------------- DashboardRoom.webSocketMessage
\* data.limit of a parsed message: a JSON value tagged with its typeof

\* (variant) the lower clamp forgotten
HistoryLimitNoFloor(dataLimit) ==
    IF dataLimit.t = "number"
    THEN MathMin(dataLimit.v, MAX_HISTORY)
    ELSE MAX_HISTORY

\* typeof data.limit === "number"
\*   ? Math.min(Math.max(data.limit, 1), MAX_HISTORY) : MAX_HISTORY
HistoryLimit(dataLimit) ==
    IF dataLimit.t = "number"
    THEN MathMin(MathMax(dataLimit.v, 1), MAX_HISTORY)
    ELSE MAX_HISTORY

Unparseable == [type |-> "unparseable", limit |-> Undefined]
Ping == [type |-> "ping", limit |-> Undefined]
RequestHistory(limit) == [type |-> "request-history", limit |-> limit]

\* a client message: its length, whether it is a string (not an ArrayBuffer)
\* and what JSON.parse makes of it
ClientMessage(length, isString, data) ==
    [length |-> length, isString |-> isString, data |-> data]

PongMessage == [type |-> "pong", timestamp |-> now]
ErrorMessage == [type |-> "error", message |-> "Message too large"]

\* (variant) a parse failure is reported to the session
WebSocketMessageReportsParseError(s, m, t) ==
    /\ s \in webSockets \ broken
    /\ received < MaxClientMsgs
    /\ received' = received + 1
    /\ handled' = Append(handled, [sess |-> s, msg |-> m])
    /\ IF m.length > MAX_WS_MESSAGE_SIZE
       THEN /\ sent' = [sent EXCEPT ![s] = Append(@, ErrorMessage)]
            /\ task' = task
       ELSE IF ~m.isString
       THEN /\ sent' = sent
            /\ task' = task
       ELSE IF m.data = Unparseable
       THEN /\ sent' = [sent EXCEPT ![s] = Append(@, [type |-> "error", message |-> "Invalid JSON"])]
            /\ task' = task
       ELSE IF m.data.type = "ping"
       THEN /\ sent' = [sent EXCEPT ![s] = Append(@, PongMessage)]
            /\ task' = task
       ELSE IF m.data.type = "request-history"
       THEN /\ NextFree(t)
            /\ sent' = sent
            /\ task' = StartRead(t, "ws", s, m.data.limit, HistoryLimit(m.data.limit))
       ELSE /\ sent' = sent
            /\ task' = task
    /\ UNCHANGED <<now, store, req, loop, webSockets, broken, closed, upgraded, faults, viewer>>

WebSocketMessage(s, m, t) ==
    /\ s \in webSockets \ broken
    /\ received < MaxClientMsgs
    /\ received' = received + 1
    /\ handled' = Append(handled, [sess |-> s, msg |-> m])
    /\ IF m.length > MAX_WS_MESSAGE_SIZE
       THEN /\ sent' = [sent EXCEPT ![s] = Append(@, ErrorMessage)]
            /\ task' = task
       ELSE IF ~m.isString \/ m.data = Unparseable
       THEN /\ sent' = sent
            /\ task' = task
       ELSE IF m.data.type = "ping"
       THEN /\ sent' = [sent EXCEPT ![s] = Append(@, PongMessage)]
            /\ task' = task
       ELSE IF m.data.type = "request-history"
       THEN /\ NextFree(t)
            /\ sent' = sent
            /\ task' = StartRead(t, "ws", s, m.data.limit, HistoryLimit(m.data.limit))
       ELSE /\ sent' = sent
            /\ task' = task
    /\ UNCHANGED <<now, store, req, loop, webSockets, broken, closed, upgraded, faults, viewer>>

\* ----------------------------------------------------------- GET /api/events
\* url.searchParams.get("limit"): null when the parameter is absent
Absent == [present |-> FALSE, chars |-> <<>>]
Param(str) == [present |-> TRUE, chars |-> str]

\* Math.min(Math.max(parseInt(limitParam || "100", 10) || 100, 1), 1000)
EventsLimit(limitParam) ==
    LET str == IF limitParam.present /\ limitParam.chars # <<>>
               THEN limitParam.chars
               ELSE <<"1", "0", "0">>
        n == ParseInt(str)
        m == IF Truthy(n) THEN n.v ELSE DEFAULT_EVENTS_LIMIT
    IN  MathMin(MathMax(m, 1), MAX_EVENTS_LIMIT)

\* handleEvents up to the await of WEBHOOKS.list({ limit })
HandleEvents(limitParam, t) ==
    /\ NextFree(t)
    /\ task' = StartRead(t, "http", 0, limitParam, EventsLimit(limitParam))
    /\ UNCHANGED <<now, store, req, loop, webSockets, broken, closed, sent,
                   received, handled, upgraded, faults, viewer>>

\* ----------------------------------------------------------- GET /api/health
\* the bindings the worker was deployed with
Env(webhooks, dashboardRoom) == [WEBHOOKS |-> webhooks, DASHBOARD_ROOM |-> dashboardRoom]

\* const health = { status: "healthy", timestamp: Date.now(), kv: "unknown",
\*                  durable_objects: "unknown" }
NewHealth ==
    [status |-> "healthy", timestamp |-> now, kv |-> "unknown",
     durable_objects |-> "unknown"]

\* json(health, health.status === "healthy" ? 200 : 503, request)
HealthResponse(health) ==
    [status |-> IF health.status = "healthy" THEN 200 ELSE 503, body |-> health]

\* the second try block up to its await: room.fetch(".../connections") is
\* issued when env.DASHBOARD_ROOM is bound, else the probe answers at once
HealthAfterKv(tasks, t, env, health) ==
    IF env.DASHBOARD_ROOM
    THEN [tasks EXCEPT ![t].pc = "room", ![t].reply = health]
    ELSE [tasks EXCEPT ![t].pc = "done",
                      ![t].reply = HealthResponse(
                          [health EXCEPT !.durable_objects = "not configured",
                                         !.status = "degraded"])]

\* handleHealth up to its first await: WEBHOOKS.list({ limit: 1 }) when
\* env.WEBHOOKS is bound
HandleHealth(t, env) ==
    /\ NextFree(t)
    /\ LET started == [task EXCEPT ![t] = [FreeTask EXCEPT !.kind = "health",
                                                           !.env = env]]
       IN  IF env.WEBHOOKS
           THEN task' = [started EXCEPT ![t].pc = "kv", ![t].reply = NewHealth]
           ELSE task' = HealthAfterKv(started, t, env,
                            [NewHealth EXCEPT !.kv = "not configured",
                                              !.status = "degraded"])
    /\ UNCHANGED <<now, store, req, loop, webSockets, broken, closed, sent,
                   received, handled, upgraded, faults, viewer>>

\* (variant) a failed list leaves the status as it was
HealthKvKeepsStatus(t, ok) ==
    /\ task[t].pc = "kv"
    /\ task[t].kind = "health"
    /\ task' = HealthAfterKv(task, t, task[t].env,
                    IF ok THEN [task[t].reply EXCEPT !.kv = "connected"]
                    ELSE [task[t].reply EXCEPT !.kv = "error"])
    /\ UNCHANGED <<now, store, req, loop, webSockets, broken, closed, sent,
                   received, handled, upgraded, faults, viewer>>

\* the list resolves (kv = "connected") or rejects (the catch: kv = "error",
\* status = "degraded")
HealthKv(t, ok) ==
    /\ task[t].pc = "kv"
    /\ task[t].kind = "health"
    /\ task' = HealthAfterKv(task, t, task[t].env,
                    IF ok THEN [task[t].reply EXCEPT !.kv = "connected"]
                    ELSE [task[t].reply EXCEPT !.kv = "error",
                                               !.status = "degraded"])
    /\ UNCHANGED <<now, store, req, loop, webSockets, broken, closed, sent,
                   received, handled, upgraded, faults, viewer>>

\* what comes back from room.fetch: the room's /connections response, a
\* response that is not ok, or a rejection
RoomOutcomes == {"served", "not ok", "threw"}

\* room.fetch resolves with { connections: getWebSockets().length } (or not),
\* and the probe answers
HealthRoom(t, outcome) ==
    /\ task[t].pc = "room"
    /\ task[t].kind = "health"
    /\ LET health == task[t].reply
       IN  task' = [task EXCEPT
               ![t].pc = "done",
               ![t].reply = HealthResponse(
                   IF outcome = "served"
                   THEN [connections |-> ConnectionCount] @@
                        [health EXCEPT !.durable_objects = "connected"]
                   ELSE [health EXCEPT !.durable_objects = "error",
                                       !.status = "degraded"])]
    /\ UNCHANGED <<now, store, req, loop, webSockets, broken, closed, sent,
                   received, handled, upgraded, faults, viewer>>

\* ------------------------------------------------------------ GET /api/stats
\* a stored event with the whole payload handleWebhook wrote: a finished
\* event carries its duration and, when given, its enrollment actions
StoredPayload(payload, timestamp) ==
    [payload |-> payload,
     timestamp |-> timestamp,
     eventId |-> EventId(payload.event, payload.serialNumber, timestamp)]

RECURSIVE Sum(_)
Sum(seq) == IF seq = <<>> THEN 0 ELSE Head(seq) + Sum(Tail(seq))

\* Math.round(a / b) for a >= 0 and b > 0: halves round up
MathRound(a, b) == (2 * a + b) \div (2 * b)

IsStarted(e) == e.payload.event = "com.jamf.setupmanager.started"
IsFinished(e) == e.payload.event = "com.jamf.setupmanager.finished"

\* the stats object handleStats answers for the events it read
Stats(validEvents) ==
    LET startedEvents == SelectSeq(validEvents, IsStarted)
        finishedEvents == SelectSeq(validEvents, IsFinished)
        durations == [i \in DOMAIN finishedEvents |->
                        IF "duration" \in DOMAIN finishedEvents[i].payload
                        THEN finishedEvents[i].payload.duration
                        ELSE 0]
        successfulEnrollments ==
            SelectSeq(finishedEvents, LAMBDA e :
                IF "enrollmentActions" \in DOMAIN e.payload
                THEN \A i \in DOMAIN e.payload.enrollmentActions :
                        e.payload.enrollmentActions[i].status = "finished"
                ELSE TRUE)
        stats == [total |-> Len(validEvents),
                  started |-> Len(startedEvents),
                  finished |-> Len(finishedEvents),
                  avgDuration |-> 0,
                  successRate |-> 0,
                  devices |-> Cardinality({validEvents[i].payload.serialNumber :
                                             i \in DOMAIN validEvents}),
                  lastEventTime |->
                      IF Len(validEvents) > 0
                      THEN CHOOSE m \in {validEvents[i].timestamp : i \in DOMAIN validEvents} :
                              \A i \in DOMAIN validEvents : validEvents[i].timestamp <= m
                      ELSE Null]
    IN  IF Len(finishedEvents) > 0
        THEN [stats EXCEPT
                !.avgDuration = MathRound(Sum(durations), Len(durations)),
                !.successRate = MathRound(Len(successfulEnrollments) * 100,
                                          Len(finishedEvents))]
        ELSE stats

\* handleStats up to the await of WEBHOOKS.list({ limit: 1000 })
HandleStats(t) ==
    /\ NextFree(t)
    /\ task' = StartRead(t, "stats", 0, Null, 1000)
    /\ UNCHANGED <<now, store, req, loop, webSockets, broken, closed, sent,
                   received, handled, upgraded, faults, viewer>>

\* Promise.all resolves: the entries that parse, in key order, and the
\* summary over them as the 200 response
StatsReply(t) ==
    /\ task[t].pc = "get"
    /\ task[t].kind = "stats"
    /\ Len(task[t].got) = Len(task[t].keys)
    /\ LET validEvents ==
               FilterNonNull([i \in DOMAIN task[t].got |-> ReadEntry(task[t].got[i])])
       IN  task' = [Finished(t, "done", validEvents) EXCEPT
                        ![t].reply = [status |-> 200, body |-> Stats(validEvents)]]
    /\ UNCHANGED <<now, store, req, loop, webSockets, broken, closed, sent,
                   received, handled, upgraded, faults, viewer>>

\* ------------------------------------------------- useWebSocket (the viewer)
\* (variant) the last element of each eventId is the one kept
RECURSIVE UniqueEventsLastWins(_)
UniqueEventsLastWins(data) ==
    IF data = <<>> THEN <<>>
    ELSE LET rest == UniqueEventsLastWins(Tail(data))
             e == Head(data)
         IN  IF \E i \in DOMAIN rest : rest[i].eventId = e.eventId
             THEN rest
             ELSE <<e>> \o rest

\* the filter of the history case: the first element of each eventId
RECURSIVE UniqueEvents(_)
UniqueEvents(data) ==
    IF data = <<>> THEN <<>>
    ELSE LET rest == UniqueEvents(SubSeq(data, 1, Len(data) - 1))
             e == data[Len(data)]
         IN  IF \E i \in DOMAIN rest : rest[i].eventId = e.eventId
             THEN rest
             ELSE Append(rest, e)

\* (variant) the list is not cut to its first 200 elements
EventsAfterNoSlice(events, message) ==
    CASE message.type = "history" -> UniqueEvents(message.data)
      [] message.type = "setup-manager-event" ->
            IF \E i \in DOMAIN events : events[i].eventId = message.data.eventId
            THEN events
            ELSE <<message.data>> \o events
      [] OTHER -> events

\* (variant) a live event is prepended whether or not its eventId is known
EventsAfterAlwaysPrepends(events, message) ==
    CASE message.type = "history" -> UniqueEvents(message.data)
      [] message.type = "setup-manager-event" ->
            SubSeq(<<message.data>> \o events, 1, MathMin(200, Len(events) + 1))
      [] OTHER -> events

\* the events of the state after the switch of onmessage
EventsAfter(events, message) ==
    CASE message.type = "history" -> UniqueEvents(message.data)
      [] message.type = "setup-manager-event" ->
            IF \E i \in DOMAIN events : events[i].eventId = message.data.eventId
            THEN events
            ELSE SubSeq(<<message.data>> \o events, 1,
                        MathMin(200, Len(events) + 1))   \* .slice(0, 200)
      [] OTHER -> events

\* enrollmentActions || []
ActionsOf(e) ==
    IF "enrollmentActions" \in DOMAIN e.payload THEN e.payload.enrollmentActions
    ELSE <<>>

\* the effect that recomputes the stats whenever the events change
ViewerStats(events) ==
    LET started == SelectSeq(events, IsStarted)
        finished == SelectSeq(events, IsFinished)
        durations ==
            LET withDuration == SelectSeq(finished, LAMBDA e :
                    /\ "duration" \in DOMAIN e.payload
                    /\ e.payload.duration > 0)
            IN  [i \in DOMAIN withDuration |-> withDuration[i].payload.duration]
        failedActions ==
            Sum([i \in DOMAIN finished |->
                    Len(SelectSeq(ActionsOf(finished[i]),
                                  LAMBDA a : a.status = "failed"))])
        totalActions == Sum([i \in DOMAIN finished |-> Len(ActionsOf(finished[i]))])
    IN  [total |-> Len(events),
         started |-> Len(started),
         finished |-> Len(finished),
         avgDuration |-> IF Len(durations) > 0
                         THEN MathRound(Sum(durations), Len(durations))
                         ELSE 0,
         successRate |-> IF totalActions > 0
                         THEN MathRound((totalActions - failedActions) * 100,
                                        totalActions)
                         ELSE 100,
         failedActions |-> failedActions]

\* ws.onmessage for one message, with the stats effect that follows a
\* change of the event list
OnMessage(message, read) ==
    /\ LET events == EventsAfter(viewer.events, message)
       IN  viewer' = [viewer EXCEPT !.events = events,
                                    !.stats = ViewerStats(events),
                                    !.read = read]
    /\ UNCHANGED <<now, store, req, loop, webSockets, broken, closed, sent, task,
                   received, handled, upgraded, faults>>

\* the next message the room sent on the viewer's socket arrives
Receive(s) ==
    /\ viewer.read < Len(sent[s])
    /\ OnMessage(sent[s][viewer.read + 1], viewer.read + 1)

\* ------------------------------------------------ fetch (the worker's router)
\* the Cf-Access-Jwt-Assertion header: absent, or a token known by what each
\* check of validateAccessJwt finds in it
NoJwt == [present |-> FALSE]
Jwt(parts, decodes, aud, exp, iss, kid, signature) ==
    [present |-> TRUE,
     parts |-> parts,            \* jwt.split(".").length
     decodes |-> decodes,        \* atob and JSON.parse of header and payload succeed
     aud |-> aud,                \* "has": an array that includes env.CF_ACCESS_AUD;
                                 \* "other": an array that does not; "none"
     exp |-> exp,                \* "future", "past", or "none" when absent
     iss |-> iss,                \* payloadJson.iss === `https://${teamDomain}`
     kid |-> kid,                \* certs.keys holds a key with the header's kid
     signature |-> signature]    \* crypto.subtle.verify

\* the bindings of a deployment with its Access variables
AccessEnv(aud, teamDomain) ==
    [WEBHOOKS |-> TRUE, DASHBOARD_ROOM |-> TRUE,
     CF_ACCESS_AUD |-> aud, CF_ACCESS_TEAM_DOMAIN |-> teamDomain]

Forbidden(text) == [status |-> 403, body |-> text]

\* (variant) only the presence of the header is checked
ValidateAccessJwtPresence(jwt, env, certs) ==
    IF env.CF_ACCESS_AUD = "" \/ env.CF_ACCESS_TEAM_DOMAIN = "" THEN Null
    ELSE IF ~jwt.present THEN Forbidden("Unauthorized: missing Access token")
    ELSE Null

\* validateAccessJwt: null when the request may pass, else the response.
\* certs is how fetch(certsUrl) ends: "ok", "not ok", or "threw"
ValidateAccessJwt(jwt, env, certs) ==
    IF env.CF_ACCESS_AUD = "" \/ env.CF_ACCESS_TEAM_DOMAIN = "" THEN Null
    ELSE IF ~jwt.present THEN Forbidden("Unauthorized: missing Access token")
    ELSE IF jwt.parts # 3 THEN Forbidden("Unauthorized: malformed token")
    ELSE IF ~jwt.decodes THEN Forbidden("Unauthorized: token validation failed")
    ELSE IF jwt.aud # "has" THEN Forbidden("Unauthorized: invalid audience")
    ELSE IF jwt.exp = "past" THEN Forbidden("Unauthorized: token expired")
    ELSE IF ~jwt.iss THEN Forbidden("Unauthorized: invalid issuer")
    ELSE IF certs = "threw" THEN Forbidden("Unauthorized: token validation failed")
    ELSE IF certs = "not ok"
         THEN [status |-> 500, body |-> "Internal error: unable to verify token"]
    ELSE IF ~jwt.kid THEN Forbidden("Unauthorized: no matching key")
    ELSE IF ~jwt.signature THEN Forbidden("Unauthorized: invalid signature")
    ELSE Null

\* a response the router gives without calling a handler
RouterReply(t, call, reply) ==
    /\ task' = [task EXCEPT ![t] = [FreeTask EXCEPT !.pc = "done", !.kind = "router",
                                                    !.request = call.request,
                                                    !.env = call.env,
                                                    !.reply = reply]]
    /\ UNCHANGED <<now, store, req, loop, webSockets, broken, closed, sent,
                   received, handled, upgraded, faults, viewer>>

\* a handler the router called, with the request and bindings it was given
Routed(tasks, t, call) ==
    [tasks EXCEPT ![t].request = call.request, ![t].env = call.env]

\* fetch(request, env) up to the first await of the handler it calls.  A
\* call is the request (method, path, Upgrade header, Access header, and for
\* a submission what handleWebhook reads of it), the bindings, and how the
\* fetch of the Access certificates ends
Fetch(call, t) ==
    LET rq == call.request
        env == call.env
        accessDenied == ValidateAccessJwt(rq.jwt, env, call.certs)
        s == CHOOSE n \in Sessions \cup {MaxSessions + 1} :
                /\ n \notin webSockets \cup closed
                /\ \A q \in Sessions : q < n => q \in webSockets \cup closed
    IN  IF rq.method = "OPTIONS"
        THEN NextFree(t) /\ RouterReply(t, call, [status |-> 200, body |-> Null])
        ELSE IF rq.path = "/webhook" /\ rq.method = "POST"
        THEN \E r \in Reqs : WebhookReject(r, rq.webhook) \/ WebhookAccept(r, rq.webhook)
        ELSE IF accessDenied # Null
        THEN NextFree(t) /\ RouterReply(t, call, accessDenied)
        ELSE IF rq.path = "/api/events" /\ rq.method = "GET"
        THEN /\ NextFree(t)
             /\ task' = Routed(StartRead(t, "http", 0, Absent, EventsLimit(Absent)),
                               t, call)
             /\ UNCHANGED <<now, store, req, loop, webSockets, broken, closed, sent,
                            received, handled, upgraded, faults, viewer>>
        ELSE IF rq.path = "/api/stats" /\ rq.method = "GET"
        THEN /\ NextFree(t)
             /\ task' = Routed(StartRead(t, "stats", 0, Null, 1000), t, call)
             /\ UNCHANGED <<now, store, req, loop, webSockets, broken, closed, sent,
                            received, handled, upgraded, faults, viewer>>
        ELSE IF rq.path = "/api/health" /\ rq.method = "GET"
        THEN /\ NextFree(t)
             /\ task' = Routed([task EXCEPT ![t] =
                                   [FreeTask EXCEPT !.kind = "health", !.pc = "kv",
                                                    !.reply = NewHealth]],
                               t, call)
             /\ UNCHANGED <<now, store, req, loop, webSockets, broken, closed, sent,
                            received, handled, upgraded, faults, viewer>>
        ELSE IF rq.path = "/ws"
        THEN IF rq.upgrade
             THEN /\ NextFree(t)
                  /\ s \in Sessions
                  /\ webSockets' = webSockets \cup {s}
                  /\ sent' = [sent EXCEPT ![s] = Append(@, ConnectedMessage)]
                  /\ task' = Routed(StartRead(t, "join", s, Null, MAX_HISTORY), t, call)
                  /\ upgraded' = upgraded \cup {s}
                  /\ UNCHANGED <<now, store, req, loop, broken, closed, received,
                                 handled, faults, viewer>>
             ELSE NextFree(t) /\ RouterReply(t, call,
                        [status |-> 426, body |-> "Expected WebSocket upgrade"])
        ELSE NextFree(t) /\ RouterReply(t, call, [status |-> 404, body |-> "Not Found"])

\* ------------------------------------- useWebSocket (connect and reconnect)
maxReconnectAttempts == 10

\* (variant) the delay without its cap
ReconnectDelayUncapped(attempts) == 1000 * 2 ^ attempts

\* Math.min(1000 * Math.pow(2, reconnectAttempts.current), 30000)
ReconnectDelay(attempts) == MathMin(1000 * 2 ^ attempts, 30000)

\* connect(): a new WebSocket, kept in wsRef
Connect(v) ==
    [v EXCEPT !.transports = Append(@, "connecting"),
              !.wsRef = Len(v.transports) + 1]

ViewerStep(v) ==
    /\ viewer' = v
    /\ UNCHANGED <<now, store, req, loop, webSockets, broken, closed, sent, task,
                   received, handled, upgraded, faults>>

\* the mount effect: connect() and the keepalive interval
Mount ==
    /\ viewer.mounted = "no"
    /\ ViewerStep([Connect(viewer) EXCEPT !.mounted = "yes", !.pingInterval = TRUE])

\* (variant) onopen leaves reconnectAttempts as it is
OnOpenKeepsCount(w) ==
    /\ w \in DOMAIN viewer.transports
    /\ viewer.transports[w] = "connecting"
    /\ ViewerStep([viewer EXCEPT !.transports[w] = "open",
                                 !.opened = @ \cup {w},
                                 !.connected = TRUE])

\* ws.onopen of transport w
OnOpen(w) ==
    /\ w \in DOMAIN viewer.transports
    /\ viewer.transports[w] = "connecting"
    /\ ViewerStep([viewer EXCEPT !.transports[w] = "open",
                                 !.opened = @ \cup {w},
                                 !.connected = TRUE,
                                 !.reconnectAttempts = 0])

\* the transport w closes (by the peer, the network, or after close()):
\* ws.onclose
OnClose(w) ==
    /\ w \in DOMAIN viewer.transports
    /\ viewer.transports[w] # "closed"
    /\ LET v == [viewer EXCEPT !.transports[w] = "closed",
                               !.connected = FALSE,
                               !.wsRef = 0]
       IN  IF viewer.reconnectAttempts < maxReconnectAttempts
           THEN ViewerStep([v EXCEPT
                    !.reconnectAttempts = @ + 1,
                    !.timers = Append(@, ReconnectDelay(viewer.reconnectAttempts))])
           ELSE ViewerStep(v)

\* (variant) the timer is an interval: it stays pending after it fired
ReconnectTimerRepeats(i) ==
    /\ i \in DOMAIN viewer.timers
    /\ Len(viewer.transports) < MaxTransports
    /\ ViewerStep(Connect(viewer))

\* a pending setTimeout(connect, delay) fires
ReconnectTimer(i) ==
    /\ i \in DOMAIN viewer.timers
    /\ Len(viewer.transports) < MaxTransports
    /\ ViewerStep(Connect([viewer EXCEPT !.timers =
            [j \in 1..(Len(@) - 1) |-> IF j < i THEN @[j] ELSE @[j + 1]]]))

\* the cleanup of the mount effect: clearInterval and wsRef.current?.close();
\* the close event of the transport follows later
Cleanup ==
    /\ viewer.mounted = "yes"
    /\ ViewerStep([viewer EXCEPT
            !.mounted = "torn down",
            !.pingInterval = FALSE,
            !.transports = IF viewer.wsRef = 0 THEN @
                           ELSE [@ EXCEPT ![viewer.wsRef] = "closing"]])

\* ------------------------------------------------------------ specification
Keys == {EventId(e, n, ts) : e \in VALID_EVENTS, n \in Serials, ts \in 1..MaxTime}

\* the event type of the submissions
SubmittedEvents == {"com.jamf.setupmanager.started"}

SerialChars == <<"S", "1">>

\* obj with the key field set to value, and obj without the key field
With(obj, field, value) == [obj EXCEPT !.props = (field :> value) @@ obj.props]
Omit(obj, field) ==
    [obj EXCEPT !.props = [k \in DOMAIN obj.props \ {field} |-> obj.props[k]]]

StartedPayload ==
    Obj([name |-> String(<<"Started">>),
         event |-> String(<<"com.jamf.setupmanager.started">>),
         timestamp |-> String(<<"2024-05-01T10:00:00Z">>),
         started |-> String(<<"2024-05-01T10:00:00Z">>),
         modelName |-> String(<<"MacBook Air">>),
         modelIdentifier |-> String(<<"Mac14,2">>),
         macOSBuild |-> String(<<"23E224">>),
         macOSVersion |-> String(<<"14.4.1">>),
         serialNumber |-> String(SerialChars),
         setupManagerVersion |-> String(<<"1.1">>)])

FinishedPayload ==
    Obj([name |-> String(<<"Finished">>),
         event |-> String(<<"com.jamf.setupmanager.finished">>),
         duration |-> Number(300),
         finished |-> String(<<"2024-05-01T10:05:00Z">>)] @@ StartedPayload.props)

GoodPayload(event) ==
    IF event = "com.jamf.setupmanager.started" THEN StartedPayload ELSE FinishedPayload

\* well-formed submissions to a worker without a secret
Submissions ==
    {Request(Param(<<"3", "0", "0">>), 300, Param(<<"application/json">>),
             Absent, "", JsonBody(GoodPayload(e))) : e \in SubmittedEvents}

SomeLimits == {Number(1)}
HistoryRequests == {ClientMessage(30, TRUE, RequestHistory(l)) : l \in SomeLimits}
SomeParams == {Absent}

\* the webhook worker and the room's session set and broadcasts within one
\* millisecond; history reads are started by Join but their store round
\* trips are not scheduled
NextHub ==
    \/ \E s \in Sessions : Break(s)
    \/ \E r \in Reqs, rq \in Submissions : WebhookAccept(r, rq)
    \/ \E r \in Reqs : WebhookPutOk(r)
    \/ \E r \in Reqs : WebhookPutFail(r)
    \/ \E r \in Reqs : BroadcastRecv(r)
    \/ \E r \in Reqs : BroadcastRun(r)
    \/ \E s \in Sessions, t \in Tasks : Join(s, t)
    \/ \E s \in Sessions : WebSocketClose(s)
    \/ \E s \in Sessions : WebSocketError(s)

SpecHub == Init /\ [][NextHub]_vars

\* the same, with submissions received at different milliseconds
NextOrder ==
    \/ Tick
    \/ NextHub

SpecOrder == Init /\ [][NextOrder]_vars

\* the events an earlier run of the worker has put, received at the times T
PastEvents(T) ==
    {StoredEvent(e, n, ts) : e \in SubmittedEvents, n \in Serials, ts \in T}

\* the namespace after the puts of handleWebhook for the events E
StoreOf(E) ==
    [k \in {ev.eventId : ev \in E} |->
        JSONstringify(CHOOSE ev \in E : ev.eventId = k)]

\* the room and the worker start over a namespace that holds past events
InitReplay ==
    /\ now = MaxTime
    /\ \E T \in SUBSET (1..MaxTime) : store = StoreOf(PastEvents(T))
    /\ req = [r \in Reqs |-> IdleReq]
    /\ loop = NoLoop
    /\ webSockets = {}
    /\ broken = {}
    /\ closed = {}
    /\ sent = [s \in Sessions |-> <<>>]
    /\ task = [t \in Tasks |-> FreeTask]
    /\ received = 0
    /\ handled = <<>>
    /\ upgraded = {}
    /\ faults = 0
    /\ viewer = NewViewer

\* the history reads (sendHistory from Join and from request-history,
\* handleEvents) over a namespace whose entries expire or are overwritten;
\* no submission arrives meanwhile
NextReplay ==
    \/ \E k \in Keys : Expire(k)
    \/ \E k \in Keys : ExternalWrite(k)
    \/ \E s \in {1}, t \in Tasks : Join(s, t)
    \/ \E s \in {1}, m \in HistoryRequests, t \in Tasks : WebSocketMessage(s, m, t)
    \/ \E p \in SomeParams, t \in Tasks : HandleEvents(p, t)
    \/ \E t \in Tasks : HistList(t)
    \/ \E t \in Tasks : HistGet(t)
    \/ \E t \in Tasks : HistSend(t)

SpecReplay == InitReplay /\ [][NextReplay]_vars

\* the payloads of finished events an earlier run has validated and stored
FinishedPayloads ==
    LET base == [event |-> "com.jamf.setupmanager.finished", serialNumber |-> "S1"]
        A == [label |-> "A", status |-> "finished"]
        B == [label |-> "B", status |-> "failed"]
    IN  {base @@ [duration |-> 0],
         base @@ [duration |-> 10, enrollmentActions |-> <<A>>],
         base @@ [duration |-> 15, enrollmentActions |-> <<A, B>>]}

\* the sets of events a namespace can hold: finished events received at
\* some of the times, and possibly one started event
StatsWindows ==
    LET finished == UNION {{{StoredPayload(d[ts], ts) : ts \in T} :
                                d \in [T -> FinishedPayloads]} :
                           T \in SUBSET (1..MaxTime)}
        started == {{}, PastEvents({1})}
    IN  {F \cup S : F \in finished, S \in started}

InitStats ==
    /\ now = MaxTime
    /\ \E W \in StatsWindows : store = StoreOf(W)
    /\ req = [r \in Reqs |-> IdleReq]
    /\ loop = NoLoop
    /\ webSockets = {}
    /\ broken = {}
    /\ closed = {}
    /\ sent = [s \in Sessions |-> <<>>]
    /\ task = [t \in Tasks |-> FreeTask]
    /\ received = 0
    /\ handled = <<>>
    /\ upgraded = {}
    /\ faults = 0
    /\ viewer = NewViewer

\* GET /api/stats and a viewer that joins and reads what the room sends it,
\* over a namespace that holds past events
NextStats ==
    \/ \E t \in Tasks : HandleStats(t)
    \/ \E t \in Tasks : HistList(t)
    \/ \E t \in Tasks : HistGet(t)
    \/ \E t \in Tasks : StatsReply(t)
    \/ \E t \in Tasks : Join(1, t)
    \/ \E t \in Tasks : HistSend(t)
    \/ Receive(1)

SpecStats == InitStats /\ [][NextStats]_vars

\* the events a viewer's socket can deliver live, and those of them its
\* histories are made of: a history may repeat an identifier with
\* different content
MaxData == 3

ReplayedEvents ==
    LET a == StoredEvent("com.jamf.setupmanager.started", "S1", 1)
    IN  {a, [a EXCEPT !.timestamp = 2],
         StoredPayload([event |-> "com.jamf.setupmanager.finished",
                        serialNumber |-> "S1", duration |-> 0], 1)}

ViewerEvents ==
    ReplayedEvents
    \cup {StoredPayload([event |-> "com.jamf.setupmanager.finished",
                         serialNumber |-> "S1", duration |-> 10,
                         enrollmentActions |-> <<[label |-> "B", status |-> "failed"]>>], 1),
          StoredEvent("com.jamf.setupmanager.started", "S1", 2),
          StoredPayload([event |-> "com.jamf.setupmanager.finished",
                         serialNumber |-> "S1", duration |-> 15], 2)}

HistoryMessages ==
    {HistoryMessage(data) : data \in UNION {[1..n -> ReplayedEvents] : n \in 0..MaxData}}

NextViewer ==
    \/ \E message \in HistoryMessages : OnMessage(message, 0)
    \/ \E e \in ViewerEvents :
            OnMessage([type |-> "setup-manager-event", data |-> e], 0)
    \/ \E message \in {ConnectedMessage, PongMessage} : OnMessage(message, 0)

SpecViewer == Init /\ [][NextViewer]_vars

\* a viewer whose list is at its limit of 200: the room's history of the
\* n most recent events, newest first, and live events around the newest
MaxLive == 3

LocalList(n) ==
    [i \in 1..n |-> StoredEvent("com.jamf.setupmanager.started", "S1", n + 1 - i)]

LiveEvents ==
    {StoredEvent("com.jamf.setupmanager.started", "S1", ts) : ts \in 199..(200 + MaxLive)}

LiveMessage(e) == [type |-> "setup-manager-event", data |-> e]

\* the viewer has read nothing yet, or a history of the 199 or 200 most
\* recent events
InitMerge ==
    /\ now = 1
    /\ store = EmptyKV
    /\ req = [r \in Reqs |-> IdleReq]
    /\ loop = NoLoop
    /\ webSockets = {}
    /\ broken = {}
    /\ closed = {}
    /\ sent = [s \in Sessions |-> <<>>]
    /\ task = [t \in Tasks |-> FreeTask]
    /\ received = 0
    /\ handled = <<>>
    /\ upgraded = {}
    /\ faults = 0
    /\ \E n \in {0, 199, 200} :
            viewer = [NewViewer EXCEPT !.events = LocalList(n),
                                       !.stats = ViewerStats(LocalList(n))]

NextMerge == \E e \in LiveEvents : OnMessage(LiveMessage(e), 0)

SpecMerge == InitMerge /\ [][NextMerge]_vars

\* the request-history a viewer sends from onopen
OpenRequest == ClientMessage(40, TRUE, RequestHistory(Number(200)))

\* one viewer on session 1 of the room while the worker ingests: the join
\* and its history read, the request-history of onopen and its read, the
\* submissions with their put and broadcast, and the viewer reading what
\* the room sent to it
NextLive ==
    \/ Tick
    \/ \E r \in Reqs, rq \in Submissions : WebhookAccept(r, rq)
    \/ \E r \in Reqs : WebhookPutOk(r)
    \/ \E r \in Reqs : BroadcastRecv(r)
    \/ \E r \in Reqs : BroadcastRun(r)
    \/ \E t \in Tasks : Join(1, t)
    \/ /\ handled = <<>>       \* onopen runs once on a connection
       /\ \E t \in Tasks : WebSocketMessage(1, OpenRequest, t)
    \/ \E t \in Tasks : HistList(t)
    \/ \E t \in Tasks : HistGet(t)
    \/ \E t \in Tasks : HistSend(t)
    \/ Receive(1)

SpecLive == Init /\ [][NextLive]_vars

\* a viewer that reconnects at millisecond 201: it is new, or it still holds
\* the 200 events of its earlier connection, whose entries have since
\* reached their expirationTtl in the namespace
InitFull ==
    /\ now = 201
    /\ store = EmptyKV
    /\ req = [r \in Reqs |-> IdleReq]
    /\ loop = NoLoop
    /\ webSockets = {}
    /\ broken = {}
    /\ closed = {}
    /\ sent = [s \in Sessions |-> <<>>]
    /\ task = [t \in Tasks |-> FreeTask]
    /\ received = 0
    /\ handled = <<>>
    /\ upgraded = {}
    /\ faults = 0
    /\ \E n \in {0, 200} :
            viewer = [NewViewer EXCEPT !.events = LocalList(n),
                                       !.stats = ViewerStats(LocalList(n))]

\* the same steps as NextLive within one millisecond, for two submissions:
\* parallel submissions of one device then carry the same eventId
NextFull ==
    \/ \E r \in {1, 2}, rq \in Submissions : WebhookAccept(r, rq)
    \/ \E r \in {1, 2} : WebhookPutOk(r)
    \/ \E r \in {1, 2} : BroadcastRecv(r)
    \/ \E r \in {1, 2} : BroadcastRun(r)
    \/ \E t \in Tasks : Join(1, t)
    \/ /\ handled = <<>>       \* onopen runs once on a connection
       /\ \E t \in Tasks : WebSocketMessage(1, OpenRequest, t)
    \/ \E t \in Tasks : HistList(t)
    \/ \E t \in Tasks : HistGet(t)
    \/ \E t \in Tasks : HistSend(t)
    \/ Receive(1)

SpecFull == InitFull /\ [][NextFull]_vars

\* sessions that join and ask for history while reads and sends of
\* sendHistory fail, around one submission
NextJoin ==
    \/ \E s \in Sessions, t \in Tasks : Join(s, t)
    \/ \E s \in Sessions : Break(s)
    \/ \E t \in Tasks : HistList(t)
    \/ \E t \in Tasks : HistGet(t)
    \/ \E t \in Tasks : HistSend(t)
    \/ \E t \in Tasks : HistFail(t)
    \/ \E s \in Sessions, m \in HistoryRequests, t \in Tasks : WebSocketMessage(s, m, t)
    \/ \E rq \in Submissions : WebhookAccept(1, rq)
    \/ WebhookPutOk(1)
    \/ BroadcastRecv(1)
    \/ BroadcastRun(1)

SpecJoin == Init /\ [][NextJoin]_vars


\* one viewer from mount to teardown and after, over transports that open
\* or fail
NextReconnect ==
    \/ Mount
    \/ \E w \in 1..MaxTransports : OnOpen(w)
    \/ \E w \in 1..MaxTransports : OnClose(w)
    \/ \E i \in 1..MaxTransports : ReconnectTimer(i)
    \/ Cleanup

SpecReconnect == Init /\ [][NextReconnect]_vars

\* the limit computations of handleEvents and webSocketMessage over all inputs
ParamChars == {" ", "-", "0", "1", "5", "x"}
AllParams ==
    {Absent} \cup {Param(str) : str \in UNION {[1..n -> ParamChars] : n \in 0..MaxParamLen}}
AllLimits ==
    {Undefined, String(<<"5">>), String(<<>>)}
    \cup {Number(n) : n \in (0 - 3)..(MAX_HISTORY + 3)} \cup {Number(5000)}
AllHistoryRequests == {ClientMessage(30, TRUE, RequestHistory(l)) : l \in AllLimits}

NextClamp ==
    \/ \E p \in AllParams : HandleEvents(p, 1)
    \/ Join(1, 1)
    \/ \E m \in AllHistoryRequests : WebSocketMessage(1, m, 2)

SpecClamp == Init /\ [][NextClamp]_vars

\* submissions for every check of handleWebhook, around a well-formed one
Good ==
    Request(Param(<<"3", "0", "0">>), 300, Param(<<"application/json">>),
            Absent, "", JsonBody(GoodPayload("com.jamf.setupmanager.started")))

Secret == "s3cret"
Bearer(token) == Param(<<"Bearer ", token>>)
WithPayload(payload) == [Good EXCEPT !.body = JsonBody(payload)]

SizeRequests ==
    {[Good EXCEPT !.contentLength = Param(<<"9", "0", "0", "0">>), !.bodySize = 9000],
     [Good EXCEPT !.contentLength = Absent, !.bodySize = 9000],
     [Good EXCEPT !.bodySize = 9000],
     [Good EXCEPT !.contentLength = Param(<<"x">>)],
     [Good EXCEPT !.contentLength = Param(<<"9", "0", "0", "0">>), !.bodySize = 9000,
                  !.contentType = Param(<<"text/plain">>), !.body = BadJson]}

TypeRequests ==
    {[Good EXCEPT !.contentType = Absent],
     [Good EXCEPT !.contentType = Param(<<"text/plain">>)],
     [Good EXCEPT !.contentType = Param(<<"application/json", "; charset=utf-8">>)],
     [Good EXCEPT !.contentType = Param(<<"text/plain">>), !.secret = Secret,
                  !.authorization = Bearer("wrong")]}

CredentialRequests ==
    {[Good EXCEPT !.secret = Secret],
     [Good EXCEPT !.secret = Secret, !.authorization = Bearer(Secret)],
     [Good EXCEPT !.secret = Secret, !.authorization = Bearer("wrong")],
     [Good EXCEPT !.secret = Secret, !.authorization = Param(<<"Basic ", Secret>>)],
     [Good EXCEPT !.secret = Secret, !.authorization = Param(<<"Bearer ">>)],
     [Good EXCEPT !.authorization = Bearer("wrong")]}

BodyRequests ==
    {[Good EXCEPT !.body = BadJson],
     WithPayload(Number(7)),
     WithPayload(With(StartedPayload, "__proto__", Obj(<<>>))),
     WithPayload(With(StartedPayload, "event", String(<<"com.example.other">>))),
     WithPayload(With(StartedPayload, "serialNumber", String(<<" ">>))),
     WithPayload(With(StartedPayload, "name", String(<<"Finished">>))),
     WithPayload(With(StartedPayload, "timestamp", String(<<"yesterday">>))),
     WithPayload(With(StartedPayload, "computerName", Number(7)))}

AllRequests == {Good} \cup SizeRequests \cup TypeRequests \cup CredentialRequests \cup BodyRequests

\* the ingestion endpoint over all these submissions, up to the store write
NextGate ==
    \/ \E r \in Reqs, rq \in AllRequests : WebhookReject(r, rq)
    \/ \E r \in Reqs, rq \in AllRequests : WebhookAccept(r, rq)
    \/ \E r \in Reqs : WebhookPutOk(r)
    \/ \E r \in Reqs : WebhookPutFail(r)

SpecGate == Init /\ [][NextGate]_vars

\* a well-formed submission and one submission per failure response
SampleRequests ==
    {Good,
     [Good EXCEPT !.contentLength = Param(<<"9", "0", "0", "0">>), !.bodySize = 9000],
     [Good EXCEPT !.contentType = Param(<<"text/plain">>)],
     [Good EXCEPT !.secret = Secret],
     [Good EXCEPT !.body = BadJson],
     WithPayload(With(StartedPayload, "event", String(<<"com.example.other">>)))}

\* the ingestion endpoint, the store and the room with its joining sessions,
\* as time passes
NextIngest ==
    \/ Tick
    \/ \E r \in Reqs, rq \in SampleRequests : WebhookReject(r, rq)
    \/ \E r \in Reqs, rq \in SampleRequests : WebhookAccept(r, rq)
    \/ \E r \in Reqs : WebhookPutOk(r)
    \/ \E r \in Reqs : WebhookPutFail(r)
    \/ \E r \in Reqs : BroadcastRecv(r)
    \/ \E r \in Reqs : BroadcastRun(r)
    \/ \E s \in Sessions, t \in Tasks : Join(s, t)

SpecIngest == Init /\ [][NextIngest]_vars

\* requests to the router: every route with every kind of Access header
\* under every deployment, and for the tokens that get as far as the
\* certificates every way their fetch can end
GoodJwt == Jwt(3, TRUE, "has", "future", TRUE, TRUE, TRUE)

BadJwts ==
    {NoJwt,
     [GoodJwt EXCEPT !.parts = 2],
     [GoodJwt EXCEPT !.decodes = FALSE],
     [GoodJwt EXCEPT !.aud = "other"],
     [GoodJwt EXCEPT !.aud = "none"],
     [GoodJwt EXCEPT !.exp = "past"],
     [GoodJwt EXCEPT !.iss = FALSE],
     [GoodJwt EXCEPT !.kid = FALSE],
     [GoodJwt EXCEPT !.signature = FALSE]}

AccessEnvs ==
    {AccessEnv("aud", "team.example"), AccessEnv("aud", ""), AccessEnv("", "")}

GuardedPaths == {"/ws", "/api/events", "/api/stats", "/api/health"}

Call(method, path, upgrade, jwt, env, certs) ==
    [request |-> [method |-> method, path |-> path, upgrade |-> upgrade,
                  jwt |-> jwt, webhook |-> Good],
     env |-> env, certs |-> certs]

Calls ==
    {Call("GET", path, path = "/ws", jwt, env, "ok") :
        path \in GuardedPaths \cup {"/"},
        jwt \in BadJwts \cup {GoodJwt, [GoodJwt EXCEPT !.exp = "none"]},
        env \in AccessEnvs}
    \cup {Call("GET", path, path = "/ws", jwt, AccessEnv("aud", "team.example"), certs) :
            path \in GuardedPaths,
            jwt \in {GoodJwt, [GoodJwt EXCEPT !.signature = FALSE]},
            certs \in {"not ok", "threw"}}
    \cup {Call(method, path, FALSE, jwt, env, "ok") :
            method \in {"OPTIONS", "POST"},
            path \in {"/webhook", "/api/events", "/ws"},
            jwt \in {NoJwt, GoodJwt},
            env \in AccessEnvs}

\* one request to the guarded routes, and submissions
NextAccess == \E call \in Calls : Fetch(call, 1)

SpecAccess == Init /\ [][NextAccess]_vars

\* the client messages of every branch of webSocketMessage: over the size
\* cap (text that would parse as a ping, and binary), at the cap, binary,
\* text that does not parse, a ping, a request-history, an unknown type
Other == [type |-> "other", limit |-> Undefined]
ClientMessages ==
    {ClientMessage(MAX_WS_MESSAGE_SIZE + 1, TRUE, Ping),
     ClientMessage(MAX_WS_MESSAGE_SIZE + 1, FALSE, Unparseable),
     ClientMessage(MAX_WS_MESSAGE_SIZE, TRUE, Ping),
     ClientMessage(20, FALSE, Unparseable),
     ClientMessage(20, TRUE, Unparseable),
     ClientMessage(20, TRUE, Other)}
    \cup HistoryRequests

\* the room's sessions and the messages they send; the namespace is empty,
\* so a history read issues no get
NextMessages ==
    \/ \E s \in Sessions, t \in Tasks : Join(s, t)
    \/ \E s \in Sessions, m \in ClientMessages, t \in Tasks : WebSocketMessage(s, m, t)
    \/ \E t \in Tasks : HistList(t)
    \/ \E t \in Tasks : HistSend(t)

SpecMessages == Init /\ [][NextMessages]_vars

\* the health probe on every deployment, while sessions join and leave
Envs == {Env(w, d) : w \in BOOLEAN, d \in BOOLEAN}

NextHealth ==
    \/ \E t \in Tasks, env \in Envs : HandleHealth(t, env)
    \/ \E t \in Tasks, ok \in BOOLEAN : HealthKv(t, ok)
    \/ \E t \in Tasks, outcome \in RoomOutcomes : HealthRoom(t, outcome)
    \/ \E s \in Sessions, t \in Tasks : Join(s, t)
    \/ \E s \in Sessions : WebSocketClose(s)

SpecHealth == Init /\ [][NextHealth]_vars

\* payloads for the validator.  Well-formed ones, after the interfaces
\* SetupManagerStartedWebhook and SetupManagerFinishedWebhook:
ActionA == Obj([label |-> String(<<"A">>), status |-> String(<<"finished">>)])
ActionB == Obj([label |-> String(<<"B">>), status |-> String(<<"failed">>)])
SomeUser == Obj([department |-> String(<<"IT">>), userID |-> String(<<"u1">>)])

StartedVariants ==
    {StartedPayload,
     With(StartedPayload, "jamfProVersion", String(<<"11.4">>)),
     With(With(StartedPayload, "jssID", String(<<"42">>)),
          "jamfProVersion", String(<<"11.4">>))}

FinishedVariants ==
    {FinishedPayload,
     With(FinishedPayload, "duration", Number(0)),
     With(FinishedPayload, "computerName", String(<<"Mac-01">>)),
     With(FinishedPayload, "enrollmentActions", Array(<<>>)),
     With(FinishedPayload, "enrollmentActions", Array(<<ActionA, ActionB>>)),
     With(FinishedPayload, "userEntry", Obj(<<>>)),
     With(FinishedPayload, "userEntry", SomeUser),
     With(With(FinishedPayload, "uploadThroughput", Number(0)),
          "downloadThroughput", Number(1000))}

WellFormedPayloads == StartedVariants \cup FinishedVariants

IsFinishedPayload(payload) ==
    StrEq(Get(payload, "event"), "com.jamf.setupmanager.finished")

\* the fields both interfaces require, and duration and finished for a
\* finished event
BaseFields ==
    {"name", "event", "timestamp", "started", "modelName", "modelIdentifier",
     "macOSBuild", "macOSVersion", "serialNumber", "setupManagerVersion"}

RequiredFields(payload) ==
    BaseFields \cup (IF IsFinishedPayload(payload) THEN {"duration", "finished"} ELSE {})

Omissions == {Omit(q, f) : q \in WellFormedPayloads, f \in BaseFields \cup {"duration", "finished"}}

\* a forbidden key at the top level, in the userEntry object, in an element
\* of enrollmentActions
ForbiddenKeyPayloads ==
    UNION {{With(q, key, Number(1)),
            With(q, "userEntry", Obj((key :> String(<<"x">>)) @@ SomeUser.props)),
            With(q, "enrollmentActions",
                 Array(<<ActionA, With(ActionB, key, Number(1))>>))} :
           q \in {StartedPayload, FinishedPayload}, key \in DANGEROUS_KEYS}

\* the values JSON.parse can give a duration
DurationValues ==
    {Number(0 - 1), Number(0), Number(1), NotFinite("Infinity"),
     NotFinite("-Infinity"), String(<<"300">>), JsonNull, Array(<<>>)}

DurationPayloads ==
    {With(q, "duration", v) : q \in FinishedVariants \cup {StartedPayload}, v \in DurationValues}

\* what breaks one rule of the validator, and payloads that break up to two
Defects ==
    {<<"__proto__", Number(1)>>,
     <<"userEntry", Obj(("constructor" :> Number(1)) @@ SomeUser.props)>>,
     <<"event", String(<<"com.example.other">>)>>,
     <<"modelName", String(<<" ">>)>>,
     <<"timestamp", String(<<"yesterday">>)>>,
     <<"started", String(<<"yesterday">>)>>,
     <<"name", String(<<"Started">>)>>,
     <<"duration", Number(0 - 1)>>,
     <<"finished", String(<<"yesterday">>)>>,
     <<"enrollmentActions", Array(<<ActionA, Obj([label |-> String(<<"C">>)])>>)>>,
     <<"uploadThroughput", String(<<"fast">>)>>,
     <<"jssID", Number(42)>>}

DefectPayloads ==
    {With(With(FinishedPayload, d[1], d[2]), e[1], e[2]) : d \in Defects, e \in Defects}

NotObjects == {Number(7), JsonNull, String(<<"Started">>), Array(<<StartedPayload>>)}

ValidatorPayloads ==
    WellFormedPayloads \cup Omissions \cup ForbiddenKeyPayloads
        \cup DurationPayloads \cup DefectPayloads \cup NotObjects

\* one submission, otherwise in order, with any of these payloads
NextValidate ==
    \/ \E rq \in {WithPayload(q) : q \in ValidatorPayloads} : WebhookReject(1, rq)
    \/ \E rq \in {WithPayload(q) : q \in ValidatorPayloads} : WebhookAccept(1, rq)

SpecValidate == Init /\ [][NextValidate]_vars

\* ================================================================= claims
IsEvent(m) == m.type = "setup-manager-event"
EventsSent(s) == SelectSeq(sent[s], IsEvent)
Count(seq, x) == Cardinality({i \in DOMAIN seq : seq[i] = x})

\* the step in which the room runs the send loop of submission r
BroadcastStep(r) == req[r].pc = "text" /\ req'[r].pc = "done"

\* C1: a submission's broadcast is started only after its store write has
\* completed successfully, and every setup-manager-event a session was sent
\* is the event of a submission whose write succeeded; a submission whose
\* write failed is never handed to the room.
C1_StoreBeforeBroadcast ==
    /\ \A r \in Reqs : req[r].pc \in {"fanout", "text", "done"} => req[r].stored
    /\ \A r \in Reqs : req[r].pc = "threw" =>
          /\ ~req[r].stored
          /\ loop.r # r
    /\ loop.r \in Reqs => req[loop.r].stored
    /\ \A s \in Sessions : \A i \in DOMAIN sent[s] :
          IsEvent(sent[s][i]) =>
              \E r \in Reqs : /\ req[r].pc = "done"
                               /\ req[r].stored
                               /\ req[r].ev = sent[s][i].data

C1_Witness ==
    /\ \E r \in Reqs : req[r].pc = "threw"
    /\ \E r \in Reqs : req[r].pc = "done" /\ \E s \in Sessions : req[r].ev \in
          {EventsSent(s)[i].data : i \in DOMAIN EventsSent(s)}

\* C2 (as claimed): a registered session is sent the events handed to the
\* room in the order they were submitted (the order of their receipt
\* timestamps), also when they come from parallel submissions.
C2_SubmissionOrder ==
    \A s \in webSockets :
        \A i, j \in DOMAIN EventsSent(s) :
            i < j => EventsSent(s)[i].data.timestamp <= EventsSent(s)[j].data.timestamp

\* C3: the send loop attempts every registered session whatever the other
\* sends do: each session with a live transport gets the message, no other
\* session's messages change, the broadcast answers 200 and its summary has
\* clients = success + errors = the number of registered sessions.
C3_BroadcastIsolatesFailures ==
    [][\A r \in Reqs : BroadcastStep(r) =>
          /\ loop'.r = r
          /\ Range(loop'.targets) = webSockets
          /\ Len(loop'.targets) = Cardinality(webSockets)
          /\ \A s \in webSockets \ broken :
                sent'[s] = Append(sent[s], BroadcastMessage(r))
          /\ \A s \in Sessions \ (webSockets \ broken) : sent'[s] = sent[s]
          /\ req'[r].status = 200
          /\ loop'.summary.clients = Cardinality(webSockets)
          /\ loop'.summary.success = Cardinality(webSockets \ broken)
          /\ loop'.summary.clients =
                loop'.summary.success + loop'.summary.errors]_vars

C3_Witness ==
    /\ loop.r \in Reqs
    /\ \A r \in Reqs : req[r].pc = "done" <=> r = loop.r
    /\ loop.targets = <<1, 2>>
    /\ loop.summary.errors = 1
    /\ loop.summary.success = 1
    /\ EventsSent(1) = <<>>
    /\ Len(EventsSent(2)) = 1

\* C4: a broadcast leaves the session set as it was and attempts every
\* registered session, those whose earlier send failed included; a session
\* leaves the set only in a close/error step, which moves it to closed.
C4_BroadcastKeepsSessions ==
    [][/\ \A r \in Reqs : BroadcastStep(r) =>
              /\ webSockets' = webSockets
              /\ broken' = broken
              /\ closed' = closed
              /\ \A s \in webSockets : s \in Range(loop'.targets)
       /\ \A s \in webSockets \ webSockets' :
              /\ s \in closed'
              /\ req' = req
              /\ sent' = sent]_vars

C4_Witness ==
    /\ webSockets = {1, 2}
    /\ broken = {1}
    /\ EventsSent(1) = <<>>
    /\ Len(EventsSent(2)) = 2
    /\ loop.targets = <<1, 2>>
    /\ loop.summary.errors = 1

\* C5: joins, leaves and broadcasts act on the session set one at a time:
\* every upgraded session is registered or closed, a join adds exactly its
\* session, a leave removes exactly its session, and a broadcast attempts
\* exactly once every session registered when it began and still registered
\* when its loop ends.
SessionSetInv ==
    /\ webSockets \cap closed = {}
    /\ webSockets \cup closed = upgraded
    /\ broken \subseteq webSockets

C5_Serialized ==
    /\ []SessionSetInv
    /\ [][/\ \A r \in Reqs : BroadcastStep(r) =>
                 \A s \in req[r].began \cap webSockets' :
                     Count(loop'.targets, s) = 1
          /\ \A s \in upgraded' \ upgraded : webSockets' = webSockets \cup {s}
          /\ \A s \in closed' \ closed :
                 webSockets' = webSockets \ {s} /\ closed' = closed \cup {s}]_vars

C5_Witness ==
    /\ loop.r \in Reqs
    /\ req[loop.r].pc = "done"
    /\ loop.stayed # Range(loop.targets)
    /\ \E s \in loop.stayed : s \in broken

\* C6: a joined session is registered and its first message is the connected
\* acknowledgment, so no history message precedes it; the 101 response has
\* been returned while the initial history is still being listed or read.
C6_AckBeforeHistory ==
    /\ \A s \in webSockets \cup closed :
          /\ sent[s] # <<>>
          /\ sent[s][1].type = "connected"
    /\ \A s \in Sessions : \A i \in DOMAIN sent[s] :
          sent[s][i].type = "history" => i > 1
    /\ \A t \in Tasks :
          task[t].kind = "join" /\ task[t].pc \in {"list", "get"} =>
              /\ task[t].sess \in upgraded
              /\ task[t].sess \in webSockets \cup closed

C6_Witness ==
    \E t \in Tasks :
        /\ task[t].kind = "join"
        /\ task[t].pc = "get"
        /\ task[t].keys # <<>>
        /\ task[t].sess \in upgraded
        /\ Len(sent[task[t].sess]) = 1
        /\ sent[task[t].sess][1].type = "connected"

\* C7 (as claimed): when the store holds more than L events (and nothing
\* expired or was overwritten), the reply has L events and no stored event
\* left out is more recent than one in the reply.
C7_MostRecent ==
    \A t \in Tasks :
        (/\ task[t].kind \in {"join", "ws"}
         /\ task[t].pc = "get"
         /\ Len(task[t].got) = Len(task[t].keys)
         /\ faults = 0
         /\ Cardinality(DOMAIN store) > task[t].limit)
        => LET reply == ValidEvents(task[t].got)
               included == {reply[i].eventId : i \in DOMAIN reply}
           IN  /\ Len(reply) = task[t].limit
               /\ \A k \in DOMAIN store \ included : \A i \in DOMAIN reply :
                     JSONparse(store[k]).timestamp <= reply[i].timestamp

\* C8: a finished history read (history message or /api/events response)
\* lists exactly the entries it read that were present and deserialized,
\* with timestamp[i] >= timestamp[i+1] for adjacent entries; every history
\* message a session holds is such a reply.
SortedDesc(events) ==
    \A i \in 1..(Len(events) - 1) : events[i].timestamp >= events[i + 1].timestamp

Parsable(got) == {i \in DOMAIN got : got[i] # Null /\ got[i] # Garbage}

C8_HistorySorted ==
    /\ \A t \in Tasks : task[t].pc \in {"done", "failed"} =>
          /\ SortedDesc(task[t].out)
          /\ Len(task[t].out) = Cardinality(Parsable(task[t].got))
          /\ Range(task[t].out) = {task[t].got[i].obj : i \in Parsable(task[t].got)}
    /\ \A s \in Sessions : \A i \in DOMAIN sent[s] :
          sent[s][i].type = "history" =>
              /\ SortedDesc(sent[s][i].data)
              /\ \E t \in Tasks : /\ task[t].pc = "done"
                                  /\ task[t].sess = s
                                  /\ task[t].out = sent[s][i].data

C8_Witness ==
    \E t, u \in Tasks :
        /\ task[t].pc = "done" /\ task[u].pc = "done"
        /\ Len(task[t].got) = 2 /\ Len(task[t].out) = 2
        /\ task[t].got[1].obj.timestamp < task[t].got[2].obj.timestamp
        /\ task[t].out[1].timestamp > task[t].out[2].timestamp
        /\ Len(task[u].got) = 2 /\ Len(task[u].out) = 1

\* C9: the limit a request-history message passes to the store is within
\* [1, 200]: 1 for a number below 1, 200 for a number above 200, the number
\* itself in between, and 200 when limit is absent or not a number.
C9_HistoryLimitClamped ==
    \A t \in Tasks : task[t].kind = "ws" /\ task[t].pc = "list" =>
        /\ task[t].limit \in 1..200
        /\ task[t].asked.t = "number" =>
              /\ task[t].asked.v < 1 => task[t].limit = 1
              /\ task[t].asked.v > 200 => task[t].limit = 200
              /\ task[t].asked.v \in 1..200 => task[t].limit = task[t].asked.v
        /\ task[t].asked.t # "number" => task[t].limit = 200

C9_Witness ==
    \E t \in Tasks :
        /\ task[t].kind = "ws"
        /\ task[t].asked = Number(0)
        /\ task[t].limit = 1

\* C10 (as claimed): the limit of GET /api/events is 100 without the
\* parameter and min(max(n, 1), 1000) when the parameter is the integer n.
IsIntString(str) ==
    LET body == IF str # <<>> /\ Head(str) = "-" THEN Tail(str) ELSE str
    IN  body # <<>> /\ \A i \in DOMAIN body : body[i] \in Digits

IntValue(str) ==
    IF Head(str) = "-" THEN 0 - DecimalValue(Tail(str)) ELSE DecimalValue(str)

C10_EventsLimitClamped ==
    \A t \in Tasks : task[t].kind = "http" /\ task[t].pc = "list" =>
        /\ ~task[t].asked.present => task[t].limit = 100
        /\ task[t].asked.present /\ IsIntString(task[t].asked.chars) =>
              task[t].limit = MathMin(MathMax(IntValue(task[t].asked.chars), 1), 1000)

\* the step in which the room handles a client message, and that message
MessageStep == Len(handled') = Len(handled) + 1
LastHandled == handled[Len(handled)]

\* C11: a client message longer than 4096 gets exactly one error reply, sent
\* to its own session, and nothing else happens: no pong, no history read,
\* no other session is written to, and the session set stays as it was.
C11_OversizeRejected ==
    [][MessageStep /\ LastHandled'.msg.length > 4096 =>
          LET s == LastHandled'.sess
          IN  /\ sent'[s] = Append(sent[s], [type |-> "error", message |-> "Message too large"])
              /\ \A o \in Sessions \ {s} : sent'[o] = sent[o]
              /\ task' = task
              /\ s \in webSockets'
              /\ webSockets' = webSockets
              /\ broken' = broken
              /\ closed' = closed
              /\ store' = store]_vars

C11_Witness ==
    /\ Len(handled) = 1
    /\ handled[1].msg.length = 4097
    /\ handled[1].msg.isString
    /\ handled[1].msg.data.type = "ping"
    /\ Len(sent[handled[1].sess]) = 2
    /\ sent[handled[1].sess][2].type = "error"
    /\ handled[1].sess \in webSockets

\* C12: a text message within the cap that does not parse gets no reply and
\* starts nothing, the session set stays as it was, and a ping or a
\* request-history handled in any later step is answered: a pong is sent,
\* a history read for the session is started.
C12_ParseFailureIgnored ==
    [][MessageStep =>
          LET s == LastHandled'.sess
              m == LastHandled'.msg
          IN  /\ m.length <= 4096 /\ m.isString /\ m.data.type = "unparseable" =>
                    /\ sent' = sent
                    /\ task' = task
                    /\ store' = store
              /\ s \in webSockets'
              /\ webSockets' = webSockets
              /\ broken' = broken
              /\ closed' = closed
              /\ m.length <= 4096 /\ m.isString /\ m.data.type = "ping" =>
                    /\ Len(sent'[s]) = Len(sent[s]) + 1
                    /\ sent'[s][Len(sent'[s])].type = "pong"
              /\ m.length <= 4096 /\ m.isString /\ m.data.type = "request-history" =>
                    \E t \in Tasks : /\ task[t].pc = "free"
                                     /\ task'[t].pc = "list"
                                     /\ task'[t].kind = "ws"
                                     /\ task'[t].sess = s]_vars

C12_Witness ==
    /\ Len(handled) = 2
    /\ handled[1].msg.length <= 4096
    /\ handled[1].msg.isString
    /\ handled[1].msg.data.type = "unparseable"
    /\ handled[2].sess = handled[1].sess
    /\ handled[2].msg.data.type = "ping"
    /\ handled[2].msg.length <= 4096
    /\ Len(sent[handled[1].sess]) = 2
    /\ sent[handled[1].sess][2].type = "pong"
    /\ handled[1].sess \in webSockets

C14_OversizeBodyRejected ==
    \A r \in Reqs :
        req[r].pc # "idle" /\ req[r].rq.bodySize > 8192 =>
            req[r].pc = "rejected" /\ req[r].status = 413

\* C15: a submission answered 413, 415, 401 or 400 is answered in a step
\* that leaves the store, every session's messages and the room's broadcasts
\* as they were, it stays answered for good, and nothing of it is stored or
\* broadcast; a text/plain POST with an acceptable Content-Length gets 415.
C15_RejectedLeavesNoTrace ==
    /\ [](\A r \in Reqs :
            /\ req[r].pc = "rejected" <=> req[r].status \in {413, 415, 401, 400}
            /\ req[r].pc = "rejected" =>
                  /\ req[r].ev = Null
                  /\ ~req[r].stored
                  /\ loop.r # r
                  /\ "error" \in DOMAIN req[r].reply
            /\ (/\ req[r].pc # "idle"
                /\ req[r].rq.contentType.chars = <<"text/plain">>
                /\ req[r].rq.contentLength.chars = <<"3", "0", "0">>)
               => req[r].status = 415)
    /\ [][\A r \in Reqs :
            /\ req'[r].pc = "rejected" /\ req[r].pc # "rejected" =>
                  /\ store' = store
                  /\ sent' = sent
                  /\ loop' = loop
            /\ req[r].pc = "rejected" => req'[r] = req[r]]_vars

C15_Witness ==
    \E r, q \in Reqs :
        /\ req[r].pc = "rejected"
        /\ req[r].status = 415
        /\ req[q].pc = "done"
        /\ DOMAIN store = {req[q].ev.eventId}
        /\ \E s \in webSockets : Len(EventsSent(s)) = 1

\* C16: with a secret configured, a submission goes on to the store write
\* only when its Authorization header is "Bearer " followed by exactly the
\* secret; with any other or no header it is rejected, with 401 when its
\* declared length and content type passed the earlier checks.  Without a
\* secret the header plays no part: a well-formed submission is accepted
\* whatever it carries.
C16_BearerSecretRequired ==
    \A r \in Reqs : req[r].pc # "idle" =>
        LET rq == req[r].rq
            exact == /\ rq.authorization.present
                     /\ rq.authorization.chars = <<"Bearer ", rq.secret>>
        IN  /\ rq.secret # "" /\ req[r].pc # "rejected" => exact
            /\ rq.secret # "" /\ ~exact =>
                  /\ req[r].pc = "rejected"
                  /\ req[r].status \in {413, 415, 401}
                  /\ (/\ rq.contentLength.chars = <<"3", "0", "0">>
                      /\ rq.contentType.chars = <<"application/json">>)
                     => req[r].status = 401
            /\ rq.secret = "" /\ [rq EXCEPT !.authorization = Good.authorization] = Good
                  => req[r].pc # "rejected"

C16_Witness ==
    \E r, q \in Reqs :
        /\ req[r].pc = "rejected"
        /\ req[r].status = 401
        /\ req[r].rq.authorization.chars = <<"Bearer ", "wrong">>
        /\ req[q].pc = "fanout"
        /\ req[q].rq.secret = "s3cret"
        /\ req[q].rq.authorization.chars = <<"Bearer ", "s3cret">>
        /\ req[q].ev.eventId \in DOMAIN store

\* C17: two submissions whose payloads fail validation get the same status
\* and the same response body whatever rule each failed; the rule is in the
\* log only.
C17_GenericValidationFailure ==
    /\ \A r \in Reqs :
          (req[r].pc = "rejected" /\ req[r].status = 400 /\ req[r].rq.body.json) =>
              /\ req[r].logged # Null
              /\ req[r].reply.error # req[r].logged.message
              /\ req[r].reply = [error |-> "Invalid webhook payload"]
    /\ \A r, q \in Reqs :
          (/\ req[r].pc = "rejected" /\ req[r].status = 400 /\ req[r].rq.body.json
           /\ req[q].pc = "rejected" /\ req[q].status = 400 /\ req[q].rq.body.json)
          => req[r].status = req[q].status /\ req[r].reply = req[q].reply

C17_Witness ==
    \E r, q \in Reqs :
        /\ req[r].pc = "rejected" /\ req[q].pc = "rejected"
        /\ req[r].logged = [message |-> "Invalid event type"]
        /\ req[q].logged = [message |-> "Missing or invalid required field: serialNumber"]
        /\ req[r].reply = req[q].reply

\* C18: the identifier an accepted submission is answered with is
\* event:serialNumber:receiptTimestamp, and it is the key the event is stored
\* under, the eventId of the stored value, and the eventId of every
\* setup-manager-event message sent for the submission.
C18_IdentifierEverywhere ==
    /\ \A r \in Reqs : req[r].pc \in {"put", "fanout", "text", "done", "threw"} =>
          LET id == Concat(Get(req[r].rq.body.payload, "event").str) \o ":"
                    \o Concat(Get(req[r].rq.body.payload, "serialNumber").str) \o ":"
                    \o ToString(req[r].ev.timestamp)
          IN  /\ req[r].ev.eventId = id
              /\ req[r].ev.timestamp <= now
              /\ req[r].stored =>
                    /\ id \in DOMAIN store
                    /\ JSONparse(store[id]).eventId = id
              /\ req[r].pc = "done" =>
                    /\ req[r].status = 200
                    /\ req[r].reply = [success |-> TRUE, eventId |-> id]
    /\ \A k \in DOMAIN store : JSONparse(store[k]).eventId = k
    /\ \A s \in Sessions : \A i \in DOMAIN sent[s] :
          IsEvent(sent[s][i]) =>
              /\ sent[s][i].data.eventId =
                    sent[s][i].data.payload.event \o ":"
                    \o sent[s][i].data.payload.serialNumber \o ":"
                    \o ToString(sent[s][i].data.timestamp)
              /\ \E r \in Reqs : /\ req[r].pc = "done"
                                 /\ req[r].reply.eventId = sent[s][i].data.eventId

C18_Witness ==
    \E r \in Reqs :
        /\ req[r].pc = "done"
        /\ req[r].reply.eventId = "com.jamf.setupmanager.started:S1:2"
        /\ "com.jamf.setupmanager.started:S1:2" \in DOMAIN store
        /\ \E s \in webSockets : \E i \in DOMAIN sent[s] :
              IsEvent(sent[s][i]) /\ sent[s][i].data.eventId = req[r].reply.eventId

\* C19 (as claimed): a store write of an accepted submission adds a key the
\* store did not hold and leaves every value already stored as it was.
C19_AppendOnly ==
    [][\A r \in Reqs : req[r].pc = "put" /\ req'[r].pc = "fanout" =>
          /\ req[r].ev.eventId \notin DOMAIN store
          /\ \A k \in DOMAIN store : k \in DOMAIN store' /\ store'[k] = store[k]]_vars

\* C20: a submission whose store write failed is answered with a 5xx and no
\* eventId, its event is never handed to the room, and the failing step
\* changes nothing but that submission: the store, the sessions and the
\* other submissions go on as before.
C20_PutFailureIs5xx ==
    /\ [](\A r \in Reqs : req[r].pc = "threw" =>
            /\ req[r].status \in 500..599
            /\ req[r].reply = Null
            /\ ~req[r].stored
            /\ loop.r # r)
    /\ [][\A r \in Reqs :
            /\ req[r].pc = "put" /\ req'[r].pc = "threw" =>
                  /\ store' = store
                  /\ sent' = sent
                  /\ loop' = loop
                  /\ webSockets' = webSockets
                  /\ \A q \in Reqs \ {r} : req'[q] = req[q]
            /\ req[r].pc = "threw" => req'[r] = req[r]]_vars

C20_Witness ==
    \E r, q \in Reqs :
        /\ r < q
        /\ req[r].pc = "threw"
        /\ req[r].status = 500
        /\ req[q].pc = "done"
        /\ req[q].status = 200
        /\ req[q].ev.eventId \in DOMAIN store
        /\ \E s \in webSockets : Len(EventsSent(s)) = 1

\* a step of the health probe t
HealthStep(t) == task'[t] # task[t] /\ task'[t].kind = "health"

\* C21: a probe is always on its way to a response or has one; the response
\* is 200 exactly when the store list and the room's /connections both
\* answered and 503 when either failed or is not bound; connections is the
\* room's session count when it answered; no step of a probe changes the
\* session set.
C21_HealthProbe ==
    /\ [](\A t \in Tasks : task[t].kind = "health" =>
            /\ task[t].pc \in {"kv", "room", "done"}
            /\ task[t].pc = "done" =>
                  LET body == task[t].reply.body
                      kvUp == body.kv = "connected"
                      roomUp == body.durable_objects = "connected"
                  IN  /\ task[t].reply.status \in {200, 503}
                      /\ task[t].reply.status = 200 <=> kvUp /\ roomUp
                      /\ (body.status = "healthy") <=> task[t].reply.status = 200
                      /\ kvUp => task[t].env.WEBHOOKS
                      /\ roomUp => task[t].env.DASHBOARD_ROOM
                      /\ body.kv \in {"connected", "error", "not configured"}
                      /\ body.durable_objects \in
                             {"connected", "error", "not configured"}
                      /\ roomUp <=> "connections" \in DOMAIN body)
    /\ [][\A t \in Tasks : HealthStep(t) =>
              /\ webSockets' = webSockets
              /\ upgraded' = upgraded
              /\ closed' = closed
              /\ sent' = sent
              /\ (task[t].pc = "room"
                  /\ task'[t].reply.body.durable_objects = "connected") =>
                     task'[t].reply.body.connections = Cardinality(webSockets)
              /\ task[t].pc = "kv" => task'[t].pc \in {"room", "done"}
              /\ task[t].pc = "room" => task'[t].pc = "done"]_vars

C21_Witness ==
    \E t \in Tasks :
        /\ task[t].kind = "health"
        /\ task[t].pc = "done"
        /\ task[t].reply.status = 200
        /\ task[t].reply.body.connections = 1
        /\ webSockets = {1}

\* the payload submission r carried, whether the validator accepted it, and
\* the reason it logged
PayloadOf(r) == req[r].rq.body.payload
Judged(r) == req[r].pc # "idle" /\ req[r].rq.body.json
AcceptedPayload(r) == Judged(r) /\ req[r].pc # "rejected"
RejectedPayload(r) == Judged(r) /\ req[r].pc = "rejected" /\ req[r].logged # Null
Reason(r) == req[r].logged.message

\* a reason that names the field f
NamesField(reason, f) ==
    reason \in {"Missing or invalid required field: " \o f,
                f \o " must be a non-negative number",
                "Invalid " \o f \o " type"}

\* C22: every well-formed Started or Finished payload is accepted, and a
\* well-formed payload with one required field left out is rejected with a
\* reason that names that field.
C22_RequiredFields ==
    \A r \in Reqs : Judged(r) =>
        /\ PayloadOf(r) \in WellFormedPayloads => AcceptedPayload(r)
        /\ \A q \in WellFormedPayloads : \A f \in RequiredFields(q) :
              PayloadOf(r) = Omit(q, f) =>
                  RejectedPayload(r) /\ NamesField(Reason(r), f)

C22_Witness ==
    /\ RejectedPayload(1)
    /\ PayloadOf(1) = Omit(With(FinishedPayload, "userEntry", SomeUser), "setupManagerVersion")
    /\ Reason(1) = "Missing or invalid required field: setupManagerVersion"

\* a forbidden key at one of the three object levels
HasForbiddenKey(payload) ==
    \/ TypeofObject(payload) /\ HasDangerousKeys(payload)
    \/ TypeofObject(Get(payload, "userEntry"))
          /\ HasDangerousKeys(Get(payload, "userEntry"))
    \/ /\ Get(payload, "enrollmentActions").t = "array"
       /\ \E i \in DOMAIN Get(payload, "enrollmentActions").items :
             LET a == Get(payload, "enrollmentActions").items[i]
             IN  TypeofObject(a) /\ HasDangerousKeys(a)

\* C23 (as claimed): a payload with a key __proto__, constructor or prototype
\* in its top-level object, in its userEntry object or in an element of its
\* enrollmentActions is rejected.
C23_ForbiddenKeysRejected ==
    \A r \in Reqs : Judged(r) /\ HasForbiddenKey(PayloadOf(r)) => RejectedPayload(r)

\* C24: a finished payload that is otherwise valid is rejected when its
\* duration is negative, not finite, not a number or absent, and accepted
\* when its duration is 0.
C24_DurationRule ==
    \A r \in Reqs : Judged(r) =>
        \A q \in FinishedVariants :
            /\ PayloadOf(r) = Omit(q, "duration") => RejectedPayload(r)
            /\ \A v \in DurationValues : PayloadOf(r) = With(q, "duration", v) =>
                  /\ (v.t # "number" \/ "special" \in DOMAIN v \/ v.v < 0) =>
                        /\ RejectedPayload(r)
                        /\ Reason(r) = "duration must be a non-negative number"
                  /\ v = Number(0) => AcceptedPayload(r)

C24_Witness ==
    /\ AcceptedPayload(1)
    /\ PayloadOf(1) = With(FinishedPayload, "duration", Number(0))

\* the rules 1 to 8 a payload breaks
BrokenRules(payload) ==
    {k \in 1..8 :
        CASE k = 1 -> payload.t # "object"
          [] k = 2 -> HasForbiddenKey(payload)
          [] k = 3 -> ~\E e \in VALID_EVENTS : StrEq(Get(payload, "event"), e)
          [] k = 4 -> \E f \in BaseFields : ~IsNonEmptyString(Get(payload, f))
          [] k = 5 -> \/ ~IsValidTimestamp(Get(payload, "timestamp"))
                      \/ ~IsValidTimestamp(Get(payload, "started"))
          [] k = 6 -> \/ /\ StrEq(Get(payload, "event"), "com.jamf.setupmanager.started")
                         /\ ~StrEq(Get(payload, "name"), "Started")
                      \/ /\ IsFinishedPayload(payload)
                         /\ ~StrEq(Get(payload, "name"), "Finished")
          [] k = 7 -> IsFinishedPayload(payload) /\ ~ValidateFinished(payload).valid
          [] k = 8 -> \E f \in {"jamfProVersion", "jssID", "computerName"} :
                          Get(payload, f).t \notin {"undefined", "string"}}

\* the rule a reason belongs to
RuleOfReason(reason) ==
    CASE reason = "Payload must be a non-null object" -> 1
      [] reason = "Payload contains forbidden property names" -> 2
      [] reason = "Invalid event type" -> 3
      [] reason \in {"Missing or invalid required field: " \o f : f \in BaseFields} -> 4
      [] reason \in {"Invalid timestamp format", "Invalid started timestamp format"} -> 5
      [] reason \in {"name must be \"Started\" for started events",
                     "name must be \"Finished\" for finished events"} -> 6
      [] reason \in {f \o " must be a string if provided" :
                        f \in {"jamfProVersion", "jssID", "computerName"}} -> 8
      [] OTHER -> 7

\* C25 (as claimed): a rejected payload is rejected with the reason of the
\* lowest-numbered rule it breaks, in the order object, forbidden keys (top
\* level and nested), event type, base fields, timestamps, name, finished
\* checks, optional strings.
C25_RuleOrder ==
    \A r \in Reqs : RejectedPayload(r) =>
        /\ BrokenRules(PayloadOf(r)) # {}
        /\ \A k \in BrokenRules(PayloadOf(r)) : RuleOfReason(Reason(r)) <= k
        /\ RuleOfReason(Reason(r)) \in BrokenRules(PayloadOf(r))

\* C26 (as claimed): an accepted payload has name Started exactly with the
\* started event and Finished exactly with the finished event, timestamps
\* that parse, and a duration, when it has one, that is a finite number >= 0.
C26_AcceptedSatisfiesInvariant ==
    \A r \in Reqs : AcceptedPayload(r) =>
        LET q == PayloadOf(r)
        IN  /\ StrEq(Get(q, "name"), "Started")
                  <=> StrEq(Get(q, "event"), "com.jamf.setupmanager.started")
            /\ StrEq(Get(q, "name"), "Finished") <=> IsFinishedPayload(q)
            /\ IsValidTimestamp(Get(q, "timestamp"))
            /\ IsValidTimestamp(Get(q, "started"))
            /\ IsFinishedPayload(q) => IsValidTimestamp(Get(q, "finished"))
            /\ "duration" \in ObjectKeys(q) =>
                  /\ Get(q, "duration").t = "number"
                  /\ "special" \notin DOMAIN Get(q, "duration")
                  /\ Get(q, "duration").v >= 0


\* the finished events of a window, and the stats answers given so far
FinishedOf(window) ==
    SelectSeq(window, LAMBDA e : e.payload.event = "com.jamf.setupmanager.finished")

Answered(t) == task[t].kind = "stats" /\ task[t].pc = "done"

\* n / d to the nearest integer (a half goes up), for n >= 0 and d > 0
Nearest(n, d) ==
    CHOOSE k \in 0..n : -d < 2 * (k * d - n) /\ 2 * (k * d - n) <= d

AllActionsFinished(e) ==
    \/ "enrollmentActions" \notin DOMAIN e.payload
    \/ \A i \in DOMAIN e.payload.enrollmentActions :
            e.payload.enrollmentActions[i].status = "finished"

\* C27: the successRate of every stats answer is the percentage, to the
\* nearest integer, of the finished events of its window whose enrollment
\* actions all have status finished, and 100 when the window has no
\* finished event.
C27_ServerSuccessRate ==
    \A t \in Tasks :
        Answered(t) =>
            LET finished == FinishedOf(task[t].out)
                good == SelectSeq(finished, AllActionsFinished)
            IN  task[t].reply.body.successRate =
                    IF Len(finished) = 0 THEN 100
                    ELSE Nearest(100 * Len(good), Len(finished))

TotalDuration(finished) ==
    Sum([i \in DOMAIN finished |-> finished[i].payload.duration])

MeanDuration(window) ==
    LET finished == FinishedOf(window)
    IN  IF Len(finished) = 0 THEN 0
        ELSE Nearest(TotalDuration(finished), Len(finished))

\* C28: avgDuration of a stats answer and of the viewer's stats is the mean
\* duration of all finished events of the window (those of duration 0
\* included) to the nearest integer, 0 without finished events; an answer
\* and a viewer over the same events agree.
C28_AvgDurationAgrees ==
    /\ viewer.stats.avgDuration = MeanDuration(viewer.events)
    /\ \A t \in Tasks :
        Answered(t) =>
            /\ task[t].reply.body.avgDuration = MeanDuration(task[t].out)
            /\ Range(task[t].out) = Range(viewer.events) =>
                    task[t].reply.body.avgDuration = viewer.stats.avgDuration

FailedCount(window) ==
    LET finished == FinishedOf(window)
    IN  Sum([i \in DOMAIN finished |->
                IF "enrollmentActions" \in DOMAIN finished[i].payload
                THEN Cardinality({j \in DOMAIN finished[i].payload.enrollmentActions :
                        finished[i].payload.enrollmentActions[j].status = "failed"})
                ELSE 0])

\* C29: every stats summary over a window, the server's answer and the
\* viewer's, reports failedActions = the number of enrollment actions with
\* status failed over the finished events of the window.
C29_FailedActions ==
    /\ viewer.stats.failedActions = FailedCount(viewer.events)
    /\ \A t \in Tasks :
        Answered(t) =>
            /\ "failedActions" \in DOMAIN task[t].reply.body
            /\ task[t].reply.body.failedActions = FailedCount(task[t].out)

\* the elements of data that no earlier element shares its eventId with, in
\* the order of data
FirstOccurrences(data) ==
    LET F[i \in 0..Len(data)] ==
            IF i = 0 THEN <<>>
            ELSE IF \E j \in 1..(i - 1) : data[j].eventId = data[i].eventId
                 THEN F[i - 1]
                 ELSE Append(F[i - 1], data[i])
    IN  F[Len(data)]

\* C30: reading a history message leaves the viewer with exactly the
\* payload's first occurrences of each identifier, in the order received,
\* and with nothing of its previous list.
C30_HistoryReplaces ==
    [][\A message \in HistoryMessages :
            (message.type = "history" /\ OnMessage(message, 0)) =>
                viewer'.events = FirstOccurrences(message.data)]_vars

\* a history with a repeated identifier has replaced a list that held an
\* event the history does not carry
C30_Witness ==
    /\ Len(viewer.events) = 2
    /\ viewer.events[1].timestamp = 1
    /\ viewer.events[1].eventId = "com.jamf.setupmanager.started:S1:1"
    /\ viewer.events[2].eventId = "com.jamf.setupmanager.finished:S1:1"
    /\ viewer.events[2].payload.duration = 0

\* C31: reading a live event whose identifier is in the list leaves the list
\* as it is; otherwise the event becomes element 0, followed by the previous
\* list cut so that at most 200 elements remain.  Reading the same live event
\* once more changes nothing.
C31_LiveMergeIdempotent ==
    [][\A e \in LiveEvents :
            OnMessage(LiveMessage(e), 0) =>
                /\ viewer'.events =
                        IF \E i \in DOMAIN viewer.events : viewer.events[i].eventId = e.eventId
                        THEN viewer.events
                        ELSE [i \in 1..(IF Len(viewer.events) < 200
                                        THEN Len(viewer.events) + 1 ELSE 200) |->
                                IF i = 1 THEN e ELSE viewer.events[i - 1]]
                /\ EventsAfter(viewer'.events, LiveMessage(e)) = viewer'.events]_vars

\* a full list has taken a new live event: its oldest element is gone
C31_Witness ==
    /\ Len(viewer.events) = 200
    /\ viewer.events[1].timestamp = 201
    /\ viewer.events[200].timestamp = 2

\* the number of the close of transport w among the closes in a row since a
\* transport last opened: 1 for a transport that had opened
ClosesInARow(w) ==
    LET last == IF viewer.opened = {} THEN 0
                ELSE CHOOSE o \in viewer.opened : \A q \in viewer.opened : q <= o
    IN  IF last = 0 THEN w ELSE w - last + 1

\* C32: the k-th close in a row without an open schedules a reconnect after
\* min(2^(k-1), 30) seconds, that is 1, 2, 4, 8, 16, 30, 30, 30, 30, 30 s for
\* k = 1..10, and the 11th schedules none.
C32_BackoffSequence ==
    [][\A w \in 1..MaxTransports :
            OnClose(w) =>
                LET k == ClosesInARow(w)
                    seconds == <<1, 2, 4, 8, 16, 30, 30, 30, 30, 30>>
                IN  viewer'.timers = IF k <= 10
                                     THEN Append(viewer.timers, 1000 * seconds[k])
                                     ELSE viewer.timers]_vars

\* eleven transports have failed in a row and nothing is scheduled
C32_Witness ==
    /\ Len(viewer.transports) = 11
    /\ viewer.opened = {}
    /\ \A w \in 1..11 : viewer.transports[w] = "closed"
    /\ viewer.timers = <<>>

\* ten reconnects in a row have failed after a close
Terminal ==
    /\ Len(viewer.transports) >= 11
    /\ \A w \in DOMAIN viewer.transports :
            /\ viewer.transports[w] = "closed"
            /\ w > Len(viewer.transports) - 10 => w \notin viewer.opened

\* C33: the close of a transport that had opened is retried after 1 s; after
\* ten failed reconnects in a row the viewer is disconnected, has nothing
\* scheduled, and creates no transport any more.
C33_ConsecutiveFailures ==
    /\ [](Terminal => ~viewer.connected /\ viewer.timers = <<>>)
    /\ [][/\ \A w \in viewer.opened :
                OnClose(w) => viewer'.timers = Append(viewer.timers, 1000)
          /\ Terminal => viewer'.transports = viewer.transports]_vars

\* a transport opened after failures, closed, and ten reconnects failed
C33_Witness ==
    /\ Terminal
    /\ viewer.opened = {2}
    /\ Len(viewer.transports) = 12

\* C38: once the hook is torn down no reconnect is scheduled, none fires and
\* no transport is created.
C38_NothingAfterTeardown ==
    [][viewer.mounted = "torn down" =>
            /\ viewer'.timers = viewer.timers
            /\ Len(viewer'.transports) = Len(viewer.transports)]_vars

LiveTransports ==
    {w \in DOMAIN viewer.transports : viewer.transports[w] \in {"connecting", "open"}}

\* C39: while mounted the viewer has at most one transport connecting or
\* open, at most one pending reconnect timer, never both, and connected is
\* true only while the transport in wsRef is open.
C39_OneTransport ==
    viewer.mounted = "yes" =>
        /\ Cardinality(LiveTransports) <= 1
        /\ Len(viewer.timers) <= 1
        /\ ~(LiveTransports # {} /\ viewer.timers # <<>>)
        /\ viewer.connected =>
                /\ viewer.wsRef \in DOMAIN viewer.transports
                /\ viewer.transports[viewer.wsRef] = "open"

\* a mounted viewer whose third transport is open after two that closed
C39_Witness ==
    /\ viewer.mounted = "yes"
    /\ viewer.transports = <<"closed", "closed", "open">>
    /\ viewer.connected
    /\ viewer.opened = {1, 3}

\* a token Access issued for this application and that has not expired
ValidJwt(jwt) ==
    /\ jwt.present
    /\ jwt.parts = 3 /\ jwt.decodes
    /\ jwt.aud = "has" /\ jwt.exp # "past" /\ jwt.iss /\ jwt.kid /\ jwt.signature

Configured(env) == env.CF_ACCESS_AUD # "" /\ env.CF_ACCESS_TEAM_DOMAIN # ""

\* the request of task t went to a guarded route without a valid token
\* while Access was configured
Unadmitted(t) ==
    /\ task[t].request # Null
    /\ task[t].request.path \in {"/ws", "/api/events", "/api/stats", "/api/health"}
    /\ Configured(task[t].env)
    /\ ~ValidJwt(task[t].request.jwt)

\* no handler ran for the request of task t: no session, no store read
NoHandler(t) ==
    /\ task[t].kind = "router"
    /\ webSockets = {}
    /\ \A i \in DOMAIN sent : sent[i] = <<>>

SubmissionStep ==
    \E r \in Reqs : req[r].pc = "idle" /\ req'[r].pc \in {"rejected", "put"}

\* C34 as stated: with Access configured, a request to /ws, /api/events,
\* /api/stats or /api/health without a valid token is answered 403 and no
\* handler runs for it; POST /webhook always goes to handleWebhook; without
\* Access configured no request is refused by the check.
C34_AccessGate ==
    /\ [](\A t \in Tasks :
            /\ Unadmitted(t) => NoHandler(t) /\ task[t].reply.status = 403
            /\ (task[t].request # Null /\ ~Configured(task[t].env)) =>
                    ~(task[t].kind = "router" /\ task[t].reply.status \in {403, 500}))
    /\ [][\A call \in Calls :
            (call.request.path = "/webhook" /\ call.request.method = "POST"
             /\ Fetch(call, 1)) => SubmissionStep]_vars

\* C34, amended: such a request never reaches its handler; it is answered
\* 403, or 500 when the Access certificates could not be fetched, or, when
\* its method is OPTIONS, with the empty preflight response.  POST /webhook
\* always goes to handleWebhook, and without Access configured no request is
\* refused by the check.
C34_AccessGateAmended ==
    /\ [](\A t \in Tasks :
            /\ Unadmitted(t) =>
                /\ NoHandler(t)
                /\ task[t].reply.status =
                        IF task[t].request.method = "OPTIONS" THEN 200
                        ELSE IF task[t].reply.body = "Internal error: unable to verify token"
                        THEN 500 ELSE 403
            /\ (task[t].request # Null /\ ~Configured(task[t].env)) =>
                    ~(task[t].kind = "router" /\ task[t].reply.status \in {403, 500}))
    /\ [][\A call \in Calls :
            (call.request.path = "/webhook" /\ call.request.method = "POST"
             /\ Fetch(call, 1)) => SubmissionStep]_vars

\* a request to /ws with a token of a bad signature was refused under a
\* configured deployment
C34_Witness ==
    /\ Unadmitted(1)
    /\ task[1].request.path = "/ws"
    /\ task[1].request.jwt.present
    /\ ~task[1].request.jwt.signature
    /\ task[1].reply = Forbidden("Unauthorized: invalid signature")

\* ------------------------------------------------------------------ C35
\* the events the room sent live to session s
LiveSent(s) ==
    {sent[s][i].data : i \in {j \in DOMAIN sent[s] : IsEvent(sent[s][j])}}

\* nothing is under way: every history read has ended, every submission
\* was answered, the request-history of onopen was handled and the viewer
\* has read every message of its socket
Settled ==
    /\ viewer.read = Len(sent[1])
    /\ \A t \in Tasks : task[t].pc \notin {"list", "get"}
    /\ \A r \in Reqs : req[r].pc \in {"idle", "done"}
    /\ \E i \in DOMAIN handled : handled[i] = [sess |-> 1, msg |-> OpenRequest]

\* C35: once the viewer has read every message sent to it and no read or
\* submission is under way, every event the room sent live on the
\* connection is in the viewer's local list
C35_LiveEventNotLost ==
    Settled =>
        \A e \in LiveSent(1) :
            \E i \in DOMAIN viewer.events : viewer.events[i].eventId = e.eventId

\* ------------------------------------------------------------------ C36
\* C36: the viewer's local list is ordered by receipt timestamp, descending
C36_ViewerSorted == SortedDesc(viewer.events)

\* ------------------------------------------------------------------ C37
\* C37: the local list of a connected viewer never holds two events with
\* the same eventId and never more than 200 events
C37_ListInvariant ==
    /\ Len(viewer.events) <= 200
    /\ Cardinality({viewer.events[i].eventId : i \in DOMAIN viewer.events})
            = Len(viewer.events)

\* the viewer held 200 events, the room sent it the same new event twice
\* (two submissions of one millisecond) and it has read both
C37_Witness ==
    /\ Len(viewer.events) = 200
    /\ viewer.events[1].timestamp = 201
    /\ viewer.events[200].timestamp = 2
    /\ viewer.read = Len(sent[1])
    /\ \E i, j \in DOMAIN sent[1] :
            /\ i < j
            /\ IsEvent(sent[1][i]) /\ IsEvent(sent[1][j])
            /\ sent[1][i].data.eventId = sent[1][j].data.eventId

\* ------------------------------------------------------------------ C40
\* the initial history of session s has failed
JoinHistoryFailed(s) ==
    \E t \in Tasks : task[t].kind = "join" /\ task[t].pc = "failed" /\ task[t].sess = s

\* the step in which the history read t fails
FailStep(t) == task[t].pc \in {"list", "get"} /\ task'[t].pc = "failed"

HasHistory(s, validEvents) ==
    \E i \in DOMAIN sent[s] :
        sent[s][i].type = "history" /\ sent[s][i].data = validEvents

\* C40: when the read or the send of a joined session's initial history
\* fails, the session has received connected and stays registered; the
\* failing step changes no session set, no message sent and no other read;
\* a later broadcast is sent to the session as long as its transport is
\* alive; a later request-history of the session that ends well has sent
\* it the history; and the initial history of another session, when it ends
\* well, has been sent to that session
C40_JoinSurvivesHistoryFailure ==
    /\ [](\A s \in Sessions : JoinHistoryFailed(s) =>
            /\ s \in webSockets
            /\ sent[s] # <<>>
            /\ sent[s][1].type = "connected"
            /\ \A t \in Tasks :
                    task[t].sess = s /\ task[t].kind = "ws" /\ task[t].pc = "done" =>
                        HasHistory(s, task[t].out)
            /\ \A t \in Tasks :
                    task[t].sess # s /\ task[t].kind = "join" /\ task[t].pc = "done" =>
                        HasHistory(task[t].sess, task[t].out))
    /\ [][/\ \A t \in Tasks : FailStep(t) =>
                /\ webSockets' = webSockets
                /\ closed' = closed
                /\ sent' = sent
                /\ \A u \in Tasks \ {t} : task'[u] = task[u]
           /\ \A s \in Sessions :
                JoinHistoryFailed(s) /\ BroadcastStep(1) /\ SendOk(s) =>
                    sent'[s] = Append(sent[s], BroadcastMessage(1))]_vars

\* session 1's initial history failed on a read while its transport is
\* alive; a later submission was broadcast to it and its later
\* request-history was answered with that event
C40_Witness ==
    /\ JoinHistoryFailed(1)
    /\ 1 \notin broken
    /\ \E i \in DOMAIN sent[1] : IsEvent(sent[1][i])
    /\ \E t \in Tasks :
            /\ task[t].sess = 1 /\ task[t].kind = "ws" /\ task[t].pc = "done"
            /\ task[t].out # <<>>
            /\ HasHistory(1, task[t].out)

====
